---- MODULE Spec2Model ----
(***************************************************************************)
(* CityUnmasked: the spatial-statistical analysis pipeline.                *)
(*   - severity tiering of code-violation texts                            *)
(*       (analysis/code_violations.py, crime_unfit_analysis.py)            *)
(*   - the 100 m spatial joins, ZIP assignment and violation features      *)
(*       (analysis/decay_index.py, analysis/code_violations.py, load_data) *)
(* Texts are sequences of one-character strings, so that lower-casing and  *)
(* substring matching are computed character by character as Python does. *)
(***************************************************************************)
EXTENDS Integers, Sequences, FiniteSets, TLC

VARIABLES
  violation_text,   \* the argument of the tier-assignment functions
  tier_mod,         \* result of analysis/code_violations._assign_tier
  tier_mono,        \* result of crime_unfit_analysis._assign_violation_tier
  crime,            \* the caller's crime frame (LAT, LON and what is attached in place)
  unfit_clean,      \* unfit properties with coordinates
  vacant,           \* vacant properties with coordinates
  cv,               \* code-violation records as load_code_violations returns them
  crime_2024,       \* the crime frame the pipeline has returned so far
  variant,          \* which copy of the pipeline runs: "module" or "monolith"
  jpc,              \* position in the join pipeline
  jerr,             \* the call that raised ValueError, or "none"
  tie_rounding,     \* for a crime point with several candidate centroids, the one float64 finds
  unfit,            \* all unfit properties, as classify_neighborhoods receives them
  nbr,              \* the rows classify_neighborhoods returns
  norm_out,         \* norm(...) of the three risk-score columns, in ZIP order
  cpc,              \* which classify_neighborhoods has run, or "start"
  gfn,              \* the Granger function called: "unfit" or "cv"
  monthly_crime,    \* the periods of the monthly crime series
  monthly_other,    \* the periods of the monthly unfit / code-violation series
  gresult,          \* what the Granger function returned or raised
  gpc,              \* position of the Granger call
  files,            \* the snapshot of the input files on disk
  loaded,           \* per session and input file, the snapshot load_data has read
  cache_data,       \* st.cache_data: per cached function, the stored result
  computed,         \* how often each analysis has been computed from each input
  lastcall,         \* the last call of a cached function: its input and its result
  spc,              \* per session, the position in the dashboard script; 0 between runs
  reruns,           \* the number of script runs so far, of all sessions
  cv_csv,           \* the rows of code_violations.csv
  cv_df,            \* the frame load_code_violations returned
  lpc               \* which load_code_violations has run, or "start"

tierVars == <<violation_text, tier_mod, tier_mono>>
joinVars == <<crime, unfit_clean, vacant, cv, crime_2024, variant, jpc, jerr, tie_rounding>>
classVars == <<unfit, nbr, norm_out, cpc>>
grangerVars == <<gfn, monthly_crime, monthly_other, gresult, gpc>>
cacheVars == <<files, loaded, cache_data, computed, lastcall, spc, reruns>>
loadVars == <<cv_csv, cv_df, lpc>>
vars == <<tierVars, joinVars, classVars, grangerVars, cacheVars, loadVars>>

\* A result that has not been computed yet.
UNSET == -1

\* A frame: the derived columns attached so far, and the rows.  Every row carries
\* every field; a field whose column is not in cols holds a placeholder.
NoFrame == [cols |-> {}, rows |-> <<>>]

\* load_code_violations is not part of the run.
LoadIdle ==
  /\ cv_csv = <<>>
  /\ cv_df = <<>>
  /\ lpc = "idle"

\* The dashboard script is not part of the run.
CacheIdle ==
  /\ files = 0
  /\ loaded = 0
  /\ cache_data = <<>>
  /\ computed = <<>>
  /\ lastcall = [fn |-> "none"]
  /\ spc = -1
  /\ reruns = 0

\* No Granger function is part of the run.
GrangerIdle ==
  /\ gfn = "none"
  /\ monthly_crime = {}
  /\ monthly_other = {}
  /\ gresult = [kind |-> "none"]
  /\ gpc = "idle"

\* classify_neighborhoods is not part of the run.
ClassifyIdle ==
  /\ unfit = <<>>
  /\ nbr = <<>>
  /\ norm_out = [crime_count |-> <<>>, decay_score |-> <<>>, pct_unresolved |-> <<>>]
  /\ cpc = "idle"

\* The join pipeline is not part of the run.
JoinIdle ==
  /\ crime = NoFrame
  /\ unfit_clean = <<>>
  /\ vacant = <<>>
  /\ cv = <<>>
  /\ crime_2024 = NoFrame
  /\ variant = "none"
  /\ jpc = "idle"
  /\ jerr = "none"
  /\ tie_rounding = << >>

(***************************************************************************)
(* Severity tiering                                                        *)
(***************************************************************************)
TIER_1_KEYWORDS ==
  << <<"1","0","7",".","1",".","3">>,
     <<"u","n","f","i","t"," ","f","o","r"," ","h","u","m","a","n">>,
     <<"s","t","r","u","c","t","u","r","a","l"," ","m","e","m","b","e","r","s">>,
     <<"3","0","4",".","1","0">>,
     <<"s","t","a","i","r","w","a","y","s">>,
     <<"3","0","5",".","4">>,
     <<"s","t","a","i","r","s"," ","a","n","d"," ","w","a","l","k","i","n","g">>,
     <<"3","0","4",".","2">>,
     <<"p","r","o","t","e","c","t","i","v","e"," ","t","r","e","a","t","m","e","n","t">>,
     <<"2","7","-","3","2"," ","(","b",")">>,
     <<"s","t","a","i","r","s",","," ","p","o","r","c","h","e","s">> >>

TIER_2_KEYWORDS ==
  << <<"3","0","5",".","3">>,
     <<"i","n","t","e","r","i","o","r"," ","s","u","r","f","a","c","e","s">>,
     <<"5","0","4",".","1">>,
     <<"p","l","u","m","b","i","n","g">>,
     <<"3","0","4",".","1","3">>,
     <<"w","i","n","d","o","w">>,
     <<"s","k","y","l","i","g","h","t">>,
     <<"6","0","5",".","1">>,
     <<"i","n","s","t","a","l","l","a","t","i","o","n">>,
     <<"6","0","3",".","1">>,
     <<"m","e","c","h","a","n","i","c","a","l">>,
     <<"a","p","p","l","i","a","n","c","e","s">>,
     <<"3","0","9",".","1">>,
     <<"i","n","f","e","s","t","a","t","i","o","n">>,
     <<"7","0","5",".","1">>,
     <<"c","a","r","b","o","n"," ","m","o","n","o","x","i","d","e">>,
     <<"3","0","4",".","1","5">>,
     <<"d","o","o","r","s">>,
     <<"3","0","5",".","6">>,
     <<"i","n","t","e","r","i","o","r"," ","d","o","o","r","s">>,
     <<"l","e","a","d"," ","a","b","a","t","e","m","e","n","t">>,
     <<"2","7","-","5","7">>,
     <<"r","e","c","e","p","t","a","c","l","e">>,
     <<"2","7","-","3","2"," ","(","d",")">>,
     <<"p","r","o","t","e","c","t","i","v","e"," ","c","o","a","t","i","n","g">>,
     <<"2","7","-","3","1">>,
     <<"s","t","r","u","c","t","u","r","a","l">> >>

TIER_3_KEYWORDS ==
  << <<"2","7","-","7","2">>,
     <<"o","v","e","r","g","r","o","w","t","h">>,
     <<"t","r","a","s","h">>,
     <<"d","e","b","r","i","s">>,
     <<"3","0","8",".","1">>,
     <<"r","u","b","b","i","s","h">>,
     <<"g","a","r","b","a","g","e">>,
     <<"2","7","-","1","1","6">>,
     <<"v","a","c","a","n","t"," ","p","r","o","p","e","r","t","y"," ","r","e","g","i","s","t","r","y">> >>

EXCLUDE_KEYWORDS ==
  << <<"2","7","-","1","3","3"," ","r","e","g","i","s","t","r","a","t","i","o","n">>,
     <<"2","7","-","4","3">>,
     <<"c","e","r","t","i","f","i","c","a","t","i","o","n">>,
     <<"1","0","5",".","2">>,
     <<"b","u","i","l","d","i","n","g"," ","p","e","r","m","i","t">> >>

EXCLUDE_VIOLATION_KEYWORDS ==
  << <<"2","7","-","1","3","3"," ","r","e","g","i","s","t","r","a","t","i","o","n">>,
     <<"2","7","-","4","3">>,
     <<"c","e","r","t","i","f","i","c","a","t","i","o","n">>,
     <<"1","0","5",".","2">>,
     <<"b","u","i","l","d","i","n","g"," ","p","e","r","m","i","t">> >>

\* Characters are one-character strings; a character above U+00FF is written by its
\* name, as "U+212A" (KELVIN SIGN).  The texts of the model are over the characters
\* up to U+00FF and the named characters that appear in these definitions.
\* The cased characters whose lower case is one character, and that character:
UpperChars ==
  << "A", "B", "C", "D", "E", "F", "G", "H", "I", "J", "K", "L", "M",
     "N", "O", "P", "Q", "R", "S", "T", "U", "V", "W", "X", "Y", "Z",
     "À", "Á", "Â", "Ã", "Ä", "Å", "Æ", "Ç", "È", "É", "Ê", "Ë", "Ì",
     "Í", "Î", "Ï", "Ð", "Ñ", "Ò", "Ó", "Ô", "Õ", "Ö", "Ø", "Ù", "Ú",
     "Û", "Ü", "Ý", "Þ", "U+0178", "U+1E9E", "U+212A", "U+212B" >>

LowerChars ==
  << "a", "b", "c", "d", "e", "f", "g", "h", "i", "j", "k", "l", "m",
     "n", "o", "p", "q", "r", "s", "t", "u", "v", "w", "x", "y", "z",
     "à", "á", "â", "ã", "ä", "å", "æ", "ç", "è", "é", "ê", "ë", "ì",
     "í", "î", "ï", "ð", "ñ", "ò", "ó", "ô", "õ", "ö", "ø", "ù", "ú",
     "û", "ü", "ý", "þ", "ÿ", "ß", "k", "å" >>

\* str.lower() of a one-character string: a string of one character, or of two for
\* U+0130 (LATIN CAPITAL LETTER I WITH DOT ABOVE): i and U+0307 (COMBINING DOT ABOVE)
lower_char(c) ==
  IF c = "U+0130" THEN << "i", "U+0307" >>
  ELSE IF \E i \in 1..Len(UpperChars) : UpperChars[i] = c
  THEN << LowerChars[CHOOSE i \in 1..Len(UpperChars) : UpperChars[i] = c] >>
  ELSE << c >>

\* str.lower()
RECURSIVE lower(_)
lower(s) == IF s = << >> THEN << >> ELSE lower_char(Head(s)) \o lower(Tail(s))

\* Python's `kw in v` on strings: kw occurs in v as a contiguous substring.
Contains(kw, v) ==
  \E i \in 1..(Len(v) - Len(kw) + 1) : SubSeq(v, i, i + Len(kw) - 1) = kw

\* A text value: pd.isna(text), or the characters of the string.
NaText == [isna |-> TRUE, chars |-> <<>>]
Text(s) == [isna |-> FALSE, chars |-> s]

\* The mutant of _assign_tier: Tier-1 keywords are tried before the exclusions.
_assign_tier_tier1_first(text) ==
  IF text.isna THEN 1
  ELSE LET v == lower(text.chars) IN
    IF \E i \in 1..Len(TIER_1_KEYWORDS) : Contains(lower(TIER_1_KEYWORDS[i]), v) THEN 3
    ELSE IF \E i \in 1..Len(EXCLUDE_KEYWORDS) : Contains(EXCLUDE_KEYWORDS[i], v) THEN 0
    ELSE IF \E i \in 1..Len(TIER_2_KEYWORDS) : Contains(lower(TIER_2_KEYWORDS[i]), v) THEN 2
    ELSE 1

\* The mutant of _assign_violation_tier: Tier-2 keywords are tried before Tier-1.
_assign_violation_tier_tier2_first(text) ==
  IF text.isna THEN 1
  ELSE LET v == lower(text.chars) IN
    IF \E i \in 1..Len(EXCLUDE_VIOLATION_KEYWORDS) :
         Contains(EXCLUDE_VIOLATION_KEYWORDS[i], v) THEN 0
    ELSE IF \E i \in 1..Len(TIER_2_KEYWORDS) : Contains(lower(TIER_2_KEYWORDS[i]), v) THEN 2
    ELSE IF \E i \in 1..Len(TIER_1_KEYWORDS) : Contains(lower(TIER_1_KEYWORDS[i]), v) THEN 3
    ELSE 1

\* The mutant of _assign_tier: a missing text and a text without any keyword get
\* tier 0, so they would be filtered out.
_assign_tier_default_0(text) ==
  IF text.isna THEN 0
  ELSE LET v == lower(text.chars) IN
    IF \E i \in 1..Len(EXCLUDE_KEYWORDS) : Contains(EXCLUDE_KEYWORDS[i], v) THEN 0
    ELSE IF \E i \in 1..Len(TIER_1_KEYWORDS) : Contains(lower(TIER_1_KEYWORDS[i]), v) THEN 3
    ELSE IF \E i \in 1..Len(TIER_2_KEYWORDS) : Contains(lower(TIER_2_KEYWORDS[i]), v) THEN 2
    ELSE IF \E i \in 1..Len(TIER_3_KEYWORDS) : Contains(lower(TIER_3_KEYWORDS[i]), v) THEN 1
    ELSE 0

\* analysis/code_violations.py: _assign_tier
_assign_tier(text) ==
  IF text.isna THEN 1
  ELSE LET v == lower(text.chars) IN
    IF \E i \in 1..Len(EXCLUDE_KEYWORDS) : Contains(EXCLUDE_KEYWORDS[i], v) THEN 0
    ELSE IF \E i \in 1..Len(TIER_1_KEYWORDS) : Contains(lower(TIER_1_KEYWORDS[i]), v) THEN 3
    ELSE IF \E i \in 1..Len(TIER_2_KEYWORDS) : Contains(lower(TIER_2_KEYWORDS[i]), v) THEN 2
    ELSE IF \E i \in 1..Len(TIER_3_KEYWORDS) : Contains(lower(TIER_3_KEYWORDS[i]), v) THEN 1
    ELSE 1

\* crime_unfit_analysis.py: _assign_violation_tier
_assign_violation_tier(text) ==
  IF text.isna THEN 1
  ELSE LET v == lower(text.chars) IN
    IF \E i \in 1..Len(EXCLUDE_VIOLATION_KEYWORDS) :
         Contains(EXCLUDE_VIOLATION_KEYWORDS[i], v) THEN 0
    ELSE IF \E i \in 1..Len(TIER_1_KEYWORDS) : Contains(lower(TIER_1_KEYWORDS[i]), v) THEN 3
    ELSE IF \E i \in 1..Len(TIER_2_KEYWORDS) : Contains(lower(TIER_2_KEYWORDS[i]), v) THEN 2
    ELSE IF \E i \in 1..Len(TIER_3_KEYWORDS) : Contains(lower(TIER_3_KEYWORDS[i]), v) THEN 1
    ELSE 1

\* ---- inputs of the tiering specification ----
\* Pieces of violation text; a text is the concatenation of up to MaxParts of them.
\* "27-4" followed by "3 " spells the exclusion keyword 27-43 across two pieces,
\* "structural" followed by " members" turns a Tier-2 match into a Tier-1 match.
Fragments ==
  << <<"C","e","r","t","i","f","i","c","a","t","i","o","n">>,
     <<"2","7","-","4">>,
     <<"3"," ">>,
     <<"U","n","f","i","t"," ","f","o","r"," ","H","u","m","a","n">>,
     <<"3","0","4",".","1","0"," ","S","t","a","i","r","w","a","y","s",","," ","w","i","n","d","o","w","s">>,
     <<"s","t","r","u","c","t","u","r","a","l">>,
     <<" ","m","e","m","b","e","r","s">>,
     <<"P","l","u","m","b","i","n","g">>,
     <<"T","R","A","S","H">>,
     <<"r","o","o","f"," ","l","e","a","k">> >>

MaxParts == 2

RECURSIVE Concat(_)
Concat(ps) == IF ps = <<>> THEN <<>> ELSE Fragments[Head(ps)] \o Concat(Tail(ps))

PartLists == UNION { [1..n -> 1..Len(Fragments)] : n \in 0..MaxParts }

TextInputs == {NaText} \cup { Text(Concat(ps)) : ps \in PartLists }

TierIdle ==
  /\ violation_text = NaText
  /\ tier_mod = UNSET
  /\ tier_mono = UNSET

InitTier ==
  /\ violation_text \in TextInputs
  /\ tier_mod = UNSET
  /\ tier_mono = UNSET
  /\ JoinIdle
  /\ ClassifyIdle
  /\ GrangerIdle
  /\ CacheIdle
  /\ LoadIdle

\* df['violation'].apply(_assign_tier) on one record (modular loader)
AssignTier ==
  /\ tier_mod = UNSET
  /\ tier_mod' = _assign_tier(violation_text)
  /\ UNCHANGED <<violation_text, tier_mono, joinVars, classVars, grangerVars, cacheVars, loadVars>>

\* df['violation'].apply(_assign_violation_tier) on one record (monolithic loader)
AssignViolationTier ==
  /\ tier_mono = UNSET
  /\ tier_mono' = _assign_violation_tier(violation_text)
  /\ UNCHANGED <<violation_text, tier_mod, joinVars, classVars, grangerVars, cacheVars, loadVars>>

NextTier == AssignTier \/ AssignViolationTier

SpecTier == InitTier /\ [][NextTier]_vars

\* ---- what a text matches, for stating the claims ----
MatchesAny(kws, text) ==
  /\ ~text.isna
  /\ \E i \in 1..Len(kws) : Contains(lower(kws[i]), lower(text.chars))

HasExclude(text) == MatchesAny(EXCLUDE_KEYWORDS, text)
HasTier1(text) == MatchesAny(TIER_1_KEYWORDS, text)
HasTier2(text) == MatchesAny(TIER_2_KEYWORDS, text)
HasTier3(text) == MatchesAny(TIER_3_KEYWORDS, text)

\* C1: a non-null text containing an exclusion keyword (case-insensitively) is
\* assigned tier 0 by both tier-assignment functions, whatever else it contains.
Thm_C1_ExclusionFirst ==
  HasExclude(violation_text) =>
    /\ tier_mod \in {UNSET, 0}
    /\ tier_mono \in {UNSET, 0}

\* C1 witness: a text with an exclusion keyword and a Tier-1 keyword got tier 0 twice.
Wit_C1_ExcludedDespiteTier1 ==
  /\ HasExclude(violation_text)
  /\ HasTier1(violation_text)
  /\ tier_mod = 0
  /\ tier_mono = 0

\* C2: without an exclusion keyword, a Tier-1 keyword gives 3 even when a Tier-2 or
\* Tier-3 keyword also matches; and without exclusion and Tier-1 keywords, a Tier-2
\* keyword gives 2 even when a Tier-3 keyword also matches.
Thm_C2_TierPriority ==
  /\ (HasTier1(violation_text) /\ ~HasExclude(violation_text)) =>
        (tier_mod \in {UNSET, 3} /\ tier_mono \in {UNSET, 3})
  /\ (HasTier2(violation_text) /\ ~HasTier1(violation_text)
        /\ ~HasExclude(violation_text)) =>
        (tier_mod \in {UNSET, 2} /\ tier_mono \in {UNSET, 2})

\* C2 witness: Tier-1 and Tier-2 and Tier-3 keywords all match, and the tier is 3.
Wit_C2_Tier1OverTier2And3 ==
  /\ HasTier1(violation_text)
  /\ HasTier2(violation_text)
  /\ HasTier3(violation_text)
  /\ ~HasExclude(violation_text)
  /\ tier_mod = 3
  /\ tier_mono = 3

(***************************************************************************)
(* Spatial joins (100 m radius), ZIP assignment, violation features        *)
(***************************************************************************)
\* Coordinates are integers in units of 0.0001 degree.
Pt(la, lo) == [lat |-> la, lon |-> lo]

Abs(x) == IF x < 0 THEN 0 - x ELSE x

\* ---- arithmetic on large numbers ----
\* The haversine formula is evaluated in fixed point with 20 decimals, far below the
\* rounding of the float64 arithmetic of the code.  A natural number is the sequence
\* of its digits in base 10000, least significant first; a fixed-point number is the
\* natural number of its multiples of 10^-20.
Base == 10000
FixLimbs == 5

\* The element of a set of one element.  In { e(v) : v \in { x } } the operand x is
\* evaluated once, however often v occurs in e.
Only(S) == CHOOSE v \in S : TRUE

RECURSIVE Big(_)
Big(i) == IF i = 0 THEN << >> ELSE << i % Base >> \o Big(i \div Base)

RECURSIVE Norm(_)
Norm(a) ==
  IF a = << >> THEN a
  ELSE IF a[Len(a)] = 0 THEN Norm(SubSeq(a, 1, Len(a) - 1))
  ELSE a

Limb(a, i) == IF i <= Len(a) THEN a[i] ELSE 0

RECURSIVE AddFrom(_, _, _, _)
AddFrom(a, b, i, carry) ==
  IF i > Len(a) /\ i > Len(b)
  THEN (IF carry = 0 THEN << >> ELSE << carry >>)
  ELSE LET x == Limb(a, i) + Limb(b, i) + carry
       IN << x % Base >> \o AddFrom(a, b, i + 1, x \div Base)

BigAdd(a, b) == Only({ AddFrom(t[1], t[2], 1, 0) : t \in { << a, b >> } })

RECURSIVE LessFrom(_, _, _)
LessFrom(a, b, i) ==
  IF i = 0 THEN FALSE
  ELSE IF Limb(a, i) # Limb(b, i) THEN Limb(a, i) < Limb(b, i)
  ELSE LessFrom(a, b, i - 1)

BigLess(a, b) ==
  Only({ LessFrom(t[1], t[2], IF Len(t[1]) > Len(t[2]) THEN Len(t[1]) ELSE Len(t[2]))
         : t \in { << a, b >> } })

BigLeq(a, b) == ~BigLess(b, a)

RECURSIVE SubFrom(_, _, _, _)
SubFrom(a, b, i, borrow) ==
  IF i > Len(a) THEN << >>
  ELSE LET x == Limb(a, i) - Limb(b, i) - borrow
       IN IF x < 0 THEN << x + Base >> \o SubFrom(a, b, i + 1, 1)
          ELSE << x >> \o SubFrom(a, b, i + 1, 0)

\* a - b, and 0 when b > a
BigSub(a, b) ==
  Only({ IF BigLess(t[1], t[2]) THEN << >> ELSE Norm(SubFrom(t[1], t[2], 1, 0))
         : t \in { << a, b >> } })

RECURSIVE MulSmallFrom(_, _, _, _)
MulSmallFrom(a, m, i, carry) ==
  IF i > Len(a) THEN (IF carry = 0 THEN << >> ELSE << carry >>)
  ELSE LET x == a[i] * m + carry
       IN << x % Base >> \o MulSmallFrom(a, m, i + 1, x \div Base)

RECURSIVE MulFrom(_, _, _)
MulFrom(a, b, i) ==
  IF i > Len(a) THEN << >>
  ELSE BigAdd(MulSmallFrom(b, a[i], 1, 0), << 0 >> \o MulFrom(a, b, i + 1))

BigMul(a, b) == Only({ MulFrom(t[1], t[2], 1) : t \in { << a, b >> } })

RECURSIVE DivFrom(_, _, _, _)
DivFrom(a, d, i, rem) ==
  IF i = 0 THEN << >>
  ELSE LET x == rem * Base + a[i]
       IN DivFrom(a, d, i - 1, x % d) \o << x \div d >>

\* a divided by the small number d (d < 200000)
BigDivSmall(a, d) == Only({ Norm(DivFrom(v, d, Len(v), 0)) : v \in { a } })

\* the natural number i as a fixed-point number
Fix(i) == [k \in 1..FixLimbs |-> 0] \o Big(i)

\* the product of two fixed-point numbers
MulFix(a, b) ==
  Only({ IF Len(prod) <= FixLimbs THEN << >> ELSE SubSeq(prod, FixLimbs + 1, Len(prod))
         : prod \in { BigMul(a, b) } })

Sq(a) == Only({ MulFix(v, v) : v \in { a } })

One == Fix(1)

\* np.radians of 10000 degrees: 10000 pi / 180 = 174.53292519943295769237
RadPer10000Deg == << 9237, 9576, 9432, 2519, 5329, 174 >>

\* np.radians of x units of 0.0001 degree (x in fixed point)
radians(x) ==
  Only({ IF Len(prod) <= FixLimbs + 2 THEN << >> ELSE SubSeq(prod, FixLimbs + 3, Len(prod))
         : prod \in { BigMul(x, RadPer10000Deg) } })

\* 1 - y/((2k-1) 2k) (1 - y/((2k+1)(2k+2)) (1 - ...)), MaxTerm factors: with
\* y = x^2 it is cos x from k = 1 and (sin(x/2) / (x/2))^2 from k = 2
MaxTerm == 16

RECURSIVE Horner(_, _)
Horner(y, k) ==
  IF k > MaxTerm THEN One
  ELSE Only({ IF t[1] = << >> \/ t[2] = << >> THEN One ELSE BigSub(One, MulFix(t[2], t[1]))
              : t \in { << Horner(y, k + 1), BigDivSmall(y, (2 * k - 1) * 2 * k) >> } })

\* cos of an angle of x units of 0.0001 degree (x in fixed point, up to 90 degrees;
\* the series has MaxTerm factors, enough for 20 decimals up to half a turn)
cos(x) ==
  Only({ IF y = << >> THEN One ELSE Horner(y, 1) : y \in { Sq(radians(x)) } })

\* sin^2(x/2) divided by (x/2)^2, x in units of 0.0001 degree, up to 180 degrees
sinc2(x) ==
  Only({ IF y = << >> THEN One ELSE Horner(y, 2) : y \in { Sq(radians(x)) } })

\* half a turn and a quarter of a turn, in units of 0.0001 degree
HalfTurn == Fix(1800000)
QuarterTurn == Fix(900000)

\* cos x and sin^2(x/2) are even and have the period 360 degrees: an angle x of
\* 0..360 degrees is replaced by 360 - x when it is above 180 degrees
Fold(x) ==
  Only({ IF BigLess(HalfTurn, v) THEN BigSub(BigAdd(HalfTurn, HalfTurn), v) ELSE v : v \in { x } })

\* cos(lat) < 0, and the absolute value of cos(lat): cos(180 - x) = - cos x
CosNegative(lat) == BigLess(QuarterTurn, Fold(lat))

CosAbs(lat) ==
  Only({ IF BigLess(QuarterTurn, a) THEN cos(BigSub(HalfTurn, a)) ELSE cos(a)
         : a \in { Fold(lat) } })

\* sin^2(d/2) times 4 / (pi / 1800000)^2, d in units of 0.0001 degree
sin2half(d) == Only({ MulFix(Sq(r), sinc2(r)) : r \in { Fold(d) } })

\* The haversine metric of BallTree on np.radians(...):
\*   sin^2(dlat/2) + cos(lat1) cos(lat2) sin^2(dlon/2),
\* which grows with the great-circle distance 2 asin(sqrt(.)).  The arguments are
\* the two latitudes and the two differences, as absolute values in units of 0.0001
\* degree; the result is the metric times 4 / (pi / 1800000)^2, so that it is
\* dlat^2 + cos(lat1) cos(lat2) dlon^2 for small differences.
Hav(lat1, lat2, dlat, dlon) ==
  Only({ IF CosNegative(lat1) = CosNegative(lat2) THEN BigAdd(t[1], t[2]) ELSE BigSub(t[1], t[2])
         : t \in { << sin2half(dlat),
                      MulFix(MulFix(CosAbs(lat1), CosAbs(lat2)), sin2half(dlon)) >> } })

\* the metric between two points with coordinates in units of 0.0001 degree
HavScaled(p, q) ==
  Hav(Fix(Abs(p.lat)), Fix(Abs(q.lat)), Fix(Abs(p.lat - q.lat)), Fix(Abs(p.lon - q.lon)))

\* r = 100/6_371_000 rad is 8.99321605918730572007 units of 0.0001 degree
RadiusUnits == << 2007, 3057, 9187, 1605, 9932, 8 >>

\* the metric of two points at great-circle distance r
R100 == MulFix(Sq(RadiusUnits), sinc2(RadiusUnits))

\* ---- bounds of the metric in machine integers ----
\* Hav is costly to evaluate; most comparisons are decided by a lower and an upper
\* bound of 1000 Hav computed in machine integers, and only the others by Hav.
\* lower and upper bound of a latitude of lat units, in units of 0.0001 rad
X4Low(lat) == ((lat \div 100) * 17453) \div 10000
X4High(lat) == ((lat \div 100 + 1) * 17454) \div 10000 + 1

\* lower bound of 10^8 cos(lat): 1 - x^2/2 + x^4/24 - x^6/720
CosLow8(lat) ==
  LET xlo  == X4Low(lat)
      xhi  == X4High(lat)
      s2lo == (xlo * xlo) \div 10000
      s2hi == (xhi * xhi) \div 10000 + 1
      x6hi == ((s2hi * s2hi) \div 10000 + 1) * s2hi
      low  == 100000000 - ((xhi * xhi) \div 2 + 1) + (s2lo * s2lo) \div 24
              - (x6hi \div 720 + 1)
  IN IF low < 0 THEN 0 ELSE low

\* upper bound of 10^8 cos(lat): 1 - x^2/2 + x^4/24
CosHigh8(lat) ==
  LET xlo  == X4Low(lat)
      xhi  == X4High(lat)
      s2hi == (xhi * xhi) \div 10000 + 1
  IN 100000000 - (xlo * xlo) \div 2 + ((s2hi * s2hi) \div 24 + 1)

\* lower and upper bound of 1000 cos(lat1) cos(lat2), lat2 in lat2lo..lat2hi
CosProdLow(lat1, lat2hi) ==
  ((CosLow8(lat1) \div 10000) * (CosLow8(lat2hi) \div 10000)) \div 100000

CosProdHigh(lat1, lat2lo) ==
  ((CosHigh8(lat1) \div 10000 + 1) * (CosHigh8(lat2lo) \div 10000 + 1)) \div 100000 + 1

\* Bounds of 1000 Hav for a point at latitude lat1 and a point with latitude in
\* lat2lo..lat2hi, the differences being in dlatlo..dlathi and dlonlo..dlonhi (all
\* >= 0); ok is FALSE when the differences are too large for machine integers.
HavBounds(lat1, lat2lo, lat2hi, dlatlo, dlathi, dlonlo, dlonhi) ==
  IF dlathi > 1000 \/ dlonhi > 1000 \/ lat1 > 900000 \/ lat2hi > 900000
  THEN [ok |-> FALSE, lo |-> 0, hi |-> 0]
  ELSE LET lo0 == 1000 * dlatlo * dlatlo + CosProdLow(lat1, lat2hi) * dlonlo * dlonlo
       IN [ok |-> TRUE,
           lo |-> lo0 - lo0 \div 1000000 - 1,
           hi |-> 1000 * dlathi * dlathi + CosProdHigh(lat1, lat2lo) * dlonhi * dlonhi]

\* Bounds of Hav itself, for differences up to 3 degrees
HavBoundsCoarse(lat1, lat2lo, lat2hi, dlatlo, dlathi, dlonlo, dlonhi) ==
  IF dlathi > 30000 \/ dlonhi > 30000 \/ lat1 > 900000 \/ lat2hi > 900000
  THEN [ok |-> FALSE, lo |-> 0, hi |-> 0]
  ELSE LET lo0 == dlatlo * dlatlo + CosProdLow(lat1, lat2hi) * ((dlonlo * dlonlo) \div 1000)
       IN [ok |-> TRUE,
           lo |-> lo0 - lo0 \div 4000 - 1,
           hi |-> dlathi * dlathi
                  + CosProdHigh(lat1, lat2lo) * ((dlonhi * dlonhi) \div 1000 + 1)]

PtBounds(p, q) ==
  HavBounds(Abs(p.lat), Abs(q.lat), Abs(q.lat),
            Abs(p.lat - q.lat), Abs(p.lat - q.lat), Abs(p.lon - q.lon), Abs(p.lon - q.lon))

PtBoundsCoarse(p, q) ==
  HavBoundsCoarse(Abs(p.lat), Abs(q.lat), Abs(q.lat),
                  Abs(p.lat - q.lat), Abs(p.lat - q.lat), Abs(p.lon - q.lon), Abs(p.lon - q.lon))

\* 1000 R100 = 80877.935
R100Milli == 80877

\* The mutant of Within: the radius is 1000 m (1000 Hav = 8087793).
Within_1km(p, q) == PtBounds(p, q).ok /\ PtBounds(p, q).hi <= 8087793

\* the point q lies within the query radius of p (query_radius is inclusive):
\* Hav <= sin^2(r/2) 4 / (pi / 1800000)^2
WithinRadius(p, q) ==
  LET b == PtBounds(p, q)
      bc == PtBoundsCoarse(p, q)
  IN IF b.ok /\ b.hi <= R100Milli THEN TRUE
     ELSE IF b.ok /\ b.lo > R100Milli THEN FALSE
     ELSE IF bc.ok /\ bc.lo > R100Milli \div 1000 THEN FALSE
     ELSE BigLeq(HavScaled(p, q), R100)

\* The mutant of Within: a reference point at distance 0 is not counted.
Within_not_self(p, q) == p # q /\ WithinRadius(p, q)

Within(p, q) == WithinRadius(p, q)

\* tree.query_radius(c_coords, r=100/6_371_000, count_only=False), for one query point
query_radius(coords, c) == { j \in 1..Len(coords) : Within(c, coords[j]) }

\* tree.query_radius(c_coords, r=100/6_371_000, count_only=True), for one query point
query_radius_count(coords, c) == Cardinality(query_radius(coords, c))

\* crime[['LAT', 'LON']].values
c_coords(frame) == [i \in 1..Len(frame.rows) |-> Pt(frame.rows[i].LAT, frame.rows[i].LON)]

\* unfit_clean[['Latitude', 'Longitude']].values
u_coords(unf) == [j \in 1..Len(unf) |-> Pt(unf[j].Latitude, unf[j].Longitude)]

\* vacant[['lat', 'lon']].values, cv[['lat', 'lon']].values
v_coords(recs) == [j \in 1..Len(recs) |-> Pt(recs[j].lat, recs[j].lon)]

\* frame[col] = vals
AssignColumn(frame, col, vals) ==
  [cols |-> frame.cols \cup {col},
   rows |-> [i \in 1..Len(frame.rows) |-> [frame.rows[i] EXCEPT ![col] = vals[i]]]]

\* frame.loc[mask, col] = value
LocAssign(frame, mask, col, value) ==
  [cols |-> frame.cols,
   rows |-> [i \in 1..Len(frame.rows) |->
               IF mask[i] THEN [frame.rows[i] EXCEPT ![col] = value] ELSE frame.rows[i]]]

\* crime['near_unfit'] = tree_unfit.query_radius(c_coords, ..., count_only=True) > 0
WithNearUnfit(frame, unf) ==
  AssignColumn(frame, "near_unfit",
    [i \in 1..Len(frame.rows) |-> query_radius_count(u_coords(unf), c_coords(frame)[i]) > 0])

\* crime['near_vacant'] = tree_vacant.query_radius(c_coords, ..., count_only=True) > 0
WithNearVacant(frame, vac) ==
  AssignColumn(frame, "near_vacant",
    [i \in 1..Len(frame.rows) |-> query_radius_count(v_coords(vac), c_coords(frame)[i]) > 0])

\* The mutant of WithNearDecay: near_decay is the conjunction of the two flags.
WithNearDecay_and(frame) ==
  AssignColumn(frame, "near_decay",
    [i \in 1..Len(frame.rows) |-> frame.rows[i].near_unfit /\ frame.rows[i].near_vacant])

\* crime['near_decay'] = crime['near_unfit'] | crime['near_vacant']
WithNearDecay(frame) ==
  AssignColumn(frame, "near_decay",
    [i \in 1..Len(frame.rows) |-> frame.rows[i].near_unfit \/ frame.rows[i].near_vacant])

\* The mutant of WithDecayZone: the last .loc assignment ('Near Both') is missing.
WithDecayZone_no_both(frame) ==
  LET n  == Len(frame.rows)
      f0 == AssignColumn(frame, "decay_zone", [i \in 1..n |-> "Neither"])
      f1 == LocAssign(f0, [i \in 1..n |-> f0.rows[i].near_unfit /\ ~f0.rows[i].near_vacant],
                      "decay_zone", "Near Unfit Only")
  IN LocAssign(f1, [i \in 1..n |-> ~f1.rows[i].near_unfit /\ f1.rows[i].near_vacant],
               "decay_zone", "Near Vacant Only")

\* crime['decay_zone'] = 'Neither', then the three masked .loc assignments in order
WithDecayZone(frame) ==
  LET n  == Len(frame.rows)
      f0 == AssignColumn(frame, "decay_zone", [i \in 1..n |-> "Neither"])
      f1 == LocAssign(f0, [i \in 1..n |-> f0.rows[i].near_unfit /\ ~f0.rows[i].near_vacant],
                      "decay_zone", "Near Unfit Only")
      f2 == LocAssign(f1, [i \in 1..n |-> ~f1.rows[i].near_unfit /\ f1.rows[i].near_vacant],
                      "decay_zone", "Near Vacant Only")
  IN LocAssign(f2, [i \in 1..n |-> f2.rows[i].near_unfit /\ f2.rows[i].near_vacant],
               "decay_zone", "Near Both")

\* run_spatial_joins on non-empty reference sets; the same statements are inlined
\* in load_data on crime_2024
run_spatial_joins(frame, unf, vac) ==
  WithDecayZone(WithNearDecay(WithNearVacant(WithNearUnfit(frame, unf), vac)))

\* ---- ZIP codes: sequences of characters ----
Digits == {"0", "1", "2", "3", "4", "5", "6", "7", "8", "9"}

\* zip_code.str.match(r'^\d{5}$'): five decimal digits from the start, and then the
\* end of the string or one newline that ends the string
IsFiveDigit(z) ==
  /\ Len(z) >= 5
  /\ \A i \in 1..5 : z[i] \in Digits
  /\ (Len(z) = 5 \/ (Len(z) = 6 /\ z[6] = "\n"))

\* The characters str.strip() removes (str.isspace): blank, tab, newline, carriage
\* return, form feed, U+000B, U+001C to U+001F, U+0085, U+00A0, and the named ones
Whitespace ==
  { " ", "\t", "\n", "\r", "\f", "", "", "", "", "", "", " ",
    "U+1680", "U+2000", "U+2001", "U+2002", "U+2003", "U+2004", "U+2005", "U+2006", "U+2007",
    "U+2008", "U+2009", "U+200A", "U+2028", "U+2029", "U+202F", "U+205F", "U+3000" }

\* str.strip(): leading and trailing whitespace removed
RECURSIVE strip(_)
strip(s) ==
  IF s = <<>> THEN s
  ELSE IF Head(s) \in Whitespace THEN strip(Tail(s))
  ELSE IF s[Len(s)] \in Whitespace THEN strip(SubSeq(s, 1, Len(s) - 1))
  ELSE s

\* build_decay_index / _build_decay_index: unfit rows, then vacant rows
build_decay_index(unf, vac) ==
  [j \in 1..Len(unf) |->
     [lat |-> unf[j].Latitude, lon |-> unf[j].Longitude,
      zip_code |-> strip(unf[j].zip), decay_type |-> "Unfit Property",
      is_active |-> (unf[j].status_type_name = "Open")]]
  \o
  [j \in 1..Len(vac) |->
     [lat |-> vac[j].lat, lon |-> vac[j].lon,
      zip_code |-> vac[j].zip_code, decay_type |-> "Vacant Property",
      is_active |-> vac[j].is_active]]

RECURSIVE SumOver(_, _)
\* the sum of f[j] over the indices j of the set S
SumOver(f, S) ==
  IF S = {} THEN 0
  ELSE LET j == CHOOSE k \in S : TRUE IN f[j] + SumOver(f, S \ {j})

\* ---- order of ZIP strings (groupby sorts its keys) ----
\* the characters that occur in ZIP strings, by code point
CodePoints ==
  << " ", "-", "0", "1", "2", "3", "4", "5", "6", "7", "8", "9", "a", "n" >>

Ord(c) == CHOOSE i \in 1..Len(CodePoints) : CodePoints[i] = c

RECURSIVE StrLess(_, _)
\* Python's a < b on strings
StrLess(a, b) ==
  IF b = <<>> THEN FALSE
  ELSE IF a = <<>> THEN TRUE
  ELSE IF Head(a) = Head(b) THEN StrLess(Tail(a), Tail(b))
  ELSE Ord(Head(a)) < Ord(Head(b))

\* the keys of a groupby, in sorted order
SortedKeys(S) ==
  CHOOSE s \in [1..Cardinality(S) -> S] :
    \A a, b \in 1..Cardinality(S) : a < b => StrLess(s[a], s[b])

\* decay.groupby('zip_code')[['lat','lon']].mean(), restricted to five-digit ZIP
\* codes.  A mean is kept as the sum and the count, so that no rounding enters.
zip_centroids(decay) ==
  { [zip_code |-> z,
     slat |-> SumOver([j \in 1..Len(decay) |-> decay[j].lat],
                      {j \in 1..Len(decay) : decay[j].zip_code = z}),
     slon |-> SumOver([j \in 1..Len(decay) |-> decay[j].lon],
                      {j \in 1..Len(decay) : decay[j].zip_code = z}),
     n    |-> Cardinality({j \in 1..Len(decay) : decay[j].zip_code = z})]
    : z \in {zz \in {decay[j].zip_code : j \in 1..Len(decay)} : IsFiveDigit(zz)} }

\* Hav between the point c and the centroid k, whose coordinates are the means
\* slat / n and slon / n
CentroidDist(c, k) ==
  Hav(Fix(Abs(c.lat)), BigDivSmall(Fix(Abs(k.slat)), k.n),
      BigDivSmall(Fix(Abs(k.n * c.lat - k.slat)), k.n),
      BigDivSmall(Fix(Abs(k.n * c.lon - k.slon)), k.n))

CentroidBounds(c, k) ==
  HavBounds(Abs(c.lat), Abs(k.slat) \div k.n, (Abs(k.slat) + k.n - 1) \div k.n,
            Abs(k.n * c.lat - k.slat) \div k.n, (Abs(k.n * c.lat - k.slat) + k.n - 1) \div k.n,
            Abs(k.n * c.lon - k.slon) \div k.n, (Abs(k.n * c.lon - k.slon) + k.n - 1) \div k.n)

CentroidBoundsCoarse(c, k) ==
  HavBoundsCoarse(
            Abs(c.lat), Abs(k.slat) \div k.n, (Abs(k.slat) + k.n - 1) \div k.n,
            Abs(k.n * c.lat - k.slat) \div k.n, (Abs(k.n * c.lat - k.slat) + k.n - 1) \div k.n,
            Abs(k.n * c.lon - k.slon) \div k.n, (Abs(k.n * c.lon - k.slon) + k.n - 1) \div k.n)

\* ---- the nearest centroid, as the float64 metric ranks the centroids ----
\* The tree compares the float64 values of the metric
\*   sin(0.5 (x1[0] - x2[0]))^2 + cos(x1[0]) cos(x2[0]) sin(0.5 (x1[1] - x2[1]))^2
\* of np.radians of the coordinates.  With u = 2^-53, a coordinate read from the
\* file and converted by np.radians is off by at most 5 u of its value, and the mean
\* of n coordinates by at most (5 + n) u; the difference of two angles, sin, cos and
\* every product and sum add u each.  For a crime at (A1, B1) and a centroid at
\* (A2, B2), Dl and Dn apart, all as absolute values, the float64 metric times
\* 4 / (pi / 1800000)^2 differs from Hav by no more than
\*   2 (5 + n) u (Dl (A1 + A2 + Dl) + Dn (B1 + B2 + 3 Dn)) + (5 + n)^2 10^-18.
\* 2^-53 = 1.11e-16 as a fixed-point number, rounded up
HalfUlp == << 1200, 1 >>

\* the bound of the rounding error of the float64 metric between c and k
MetricRounding(c, k) ==
  Only({ BigAdd(MulFix(MulSmallFrom(BigAdd(MulFix(t[3], BigAdd(BigAdd(t[1], t[2]), t[3])),
                                           MulFix(t[6], BigAdd(BigAdd(t[4], t[5]),
                                                               MulSmallFrom(t[6], 3, 1, 0)))),
                                    2 * (5 + k.n), 1, 0),
                       HalfUlp),
                Big(100 * (5 + k.n) * (5 + k.n)))
         : t \in { << Fix(Abs(c.lat)), BigDivSmall(Fix(Abs(k.slat)), k.n),
                      BigDivSmall(Fix(Abs(k.n * c.lat - k.slat)), k.n),
                      Fix(Abs(c.lon)), BigDivSmall(Fix(Abs(k.slon)), k.n),
                      BigDivSmall(Fix(Abs(k.n * c.lon - k.slon)), k.n) >> } })

\* Hav(c, k) and Hav(c, k2) have the same arguments, and so the same value: the
\* same absolute latitude of the centroid and the same absolute differences to c
SameHavArgs(c, k, k2) ==
  /\ Abs(k.slat) * k2.n = Abs(k2.slat) * k.n
  /\ Abs(k.n * c.lat - k.slat) * k2.n = Abs(k2.n * c.lat - k2.slat) * k.n
  /\ Abs(k.n * c.lon - k.slon) * k2.n = Abs(k2.n * c.lon - k2.slon) * k.n

\* The float64 metric of k is certainly smaller than that of k2: Hav is smaller by
\* more than the two rounding errors.  The bounds in machine integers decide when
\* they are 0.002 or 2 apart, more than any rounding error of these differences.
Nearer(c, k, k2) ==
  LET b   == CentroidBounds(c, k)
      b2  == CentroidBounds(c, k2)
      bc  == CentroidBoundsCoarse(c, k)
      bc2 == CentroidBoundsCoarse(c, k2)
  IN IF SameHavArgs(c, k, k2) THEN FALSE
     ELSE IF b.ok /\ b2.ok /\ b.hi + 2 <= b2.lo THEN TRUE
     ELSE IF b.ok /\ b2.ok /\ b2.hi <= b.lo THEN FALSE
     ELSE IF bc.ok /\ bc2.ok /\ bc.hi + 2 <= bc2.lo THEN TRUE
     ELSE IF bc.ok /\ bc2.ok /\ bc2.hi <= bc.lo THEN FALSE
     ELSE BigLess(BigAdd(CentroidDist(c, k),
                         BigAdd(MetricRounding(c, k), MetricRounding(c, k2))),
                  CentroidDist(c, k2))

\* the float64 metric of k is not certainly larger than that of k2
NotFarther(c, k, k2) == ~Nearer(c, k2, k)

\* k is a centroid whose float64 metric to c can be the smallest: that of no
\* centroid is certainly smaller
IsNearest(c, k, cents) ==
  \A k2 \in cents : k2 = k \/ NotFarther(c, k, k2)

\* the position of the centroids in zip_centroids: groupby('zip_code') sorts the
\* groups by ZIP code, and the filters keep the order
ZipBefore(k, k2) == StrLess(k.zip_code, k2.zip_code)

\* The float64 metric from c to k and to k2 is the same number: groups of one record
\* each, with the same coordinates or, for a coordinate where c has 0, opposite
\* ones (0 - x, sin and cos are exact in the sign of x).
SameMetric(c, k, k2) ==
  /\ k.n = 1
  /\ k2.n = 1
  /\ k.slat = k2.slat \/ (c.lat = 0 /\ k.slat = 0 - k2.slat)
  /\ k.slon = k2.slon \/ (c.lon = 0 /\ k.slon = 0 - k2.slon)

\* The centroids tree.query(crime_coords, k=1) can return for the crime point c.
\* zip_centroids has fewer rows than the leaf size of the tree (40), so the tree is
\* one leaf and the query scans the centroids in their order, replacing the best so
\* far only by a centroid with a strictly smaller float64 metric: of centroids with
\* the same metric only the first can be returned.
Candidates(c, cents) ==
  { k \in cents : /\ IsNearest(c, k, cents)
                  /\ \A k2 \in cents : SameMetric(c, k, k2) => ~ZipBefore(k2, k) }

\* What the rounding of the float64 metric decides: for every crime point with more
\* than one candidate, the candidate with the smallest float64 metric.  The rounding
\* is a function of the coordinates, so the same point has the same centroid in
\* every query of a run.
RoundingOutcomes(coords, cents) ==
  Only({ { f \in [{ c \in DOMAIN cand : Cardinality(cand[c]) > 1 } -> cents] :
             \A c \in DOMAIN f : f[c] \in cand[c] }
         : cand \in { [c \in { coords[i] : i \in 1..Len(coords) } |-> Candidates(c, cents)] } })

\* tree.query(crime_coords, k=1) for one crime point c
query_k1(c, cents) ==
  Only({ IF Cardinality(cand) = 1 THEN Only(cand) ELSE tie_rounding[c]
         : cand \in { Candidates(c, cents) } })

\* The mutant of nearest_choices: tree.query may return any of the centroids whose
\* metric can be the smallest, and not the same one every time.
nearest_choices_any_near(frame, cents) ==
  { idx \in [1..Len(frame.rows) -> cents] :
      \A i \in 1..Len(frame.rows) : IsNearest(c_coords(frame)[i], idx[i], cents) }

\* _, idx = tree.query(crime_coords, k=1): what the call returns, for every crime
\* row the centroid found from LAT and LON alone
nearest_choices(frame, cents) ==
  { [i \in 1..Len(frame.rows) |-> query_k1(c_coords(frame)[i], cents)] }

\* the violation features of one crime point against the records of cv
violation_count_of(c, viol) == query_radius_count(v_coords(viol), c)

\* The mutant of violation_severity_score_of: the tiers of all records are summed,
\* not only those of the records within the radius.
violation_severity_score_of_all(c, viol) ==
  SumOver([j \in 1..Len(viol) |-> viol[j].tier], 1..Len(viol))

violation_severity_score_of(c, viol) ==
  LET idx == query_radius(v_coords(viol), c)
  IN IF Cardinality(idx) > 0
     THEN SumOver([j \in 1..Len(viol) |-> viol[j].tier], idx)
     ELSE 0

\* The mutant of has_critical_violation_of: a tier-3 record anywhere counts, not
\* only within the radius.
has_critical_violation_of_anywhere(c, viol) ==
  \E j \in 1..Len(viol) : viol[j].tier = 3

has_critical_violation_of(c, viol) ==
  LET idx == query_radius(v_coords(viol), c)
  IN IF Cardinality(idx) > 0 THEN \E j \in idx : viol[j].tier = 3 ELSE FALSE

\* add_violation_features / add_violation_features_to_crimes
add_violation_features(frame, viol) ==
  LET n == Len(frame.rows) IN
  IF Len(viol) = 0
  THEN AssignColumn(
         AssignColumn(
           AssignColumn(frame, "violation_count", [i \in 1..n |-> 0]),
           "violation_severity_score", [i \in 1..n |-> 0]),
         "has_critical_violation", [i \in 1..n |-> FALSE])
  ELSE AssignColumn(
         AssignColumn(
           AssignColumn(frame, "violation_count",
             [i \in 1..n |-> violation_count_of(c_coords(frame)[i], viol)]),
           "violation_severity_score",
             [i \in 1..n |-> violation_severity_score_of(c_coords(frame)[i], viol)]),
         "has_critical_violation",
           [i \in 1..n |-> has_critical_violation_of(c_coords(frame)[i], viol)])

\* ---- inputs of the join specification ----
\* The crime events of the end-to-end scenario: (43.048,-76.147), (43.050,-76.140),
\* (43.100,-76.000).
CrimeLocs == << Pt(430480, -761470), Pt(430500, -761400), Pt(431000, -760000) >>

\* Unfit properties: the scenario's (43.0481,-76.1471), about 14 m from event 1; one
\* about 27 m from event 2; one far from every event, with a missing ZIP ('nan').
UnfitRecs ==
  << [Latitude |-> 430481, Longitude |-> -761471, zip |-> <<"1","3","2","0","5">>,
      status_type_name |-> "Open"],
     [Latitude |-> 430502, Longitude |-> -761398, zip |-> <<" ","1","3","2","0","4">>,
      status_type_name |-> "Closed"],
     [Latitude |-> 430900, Longitude |-> -761000, zip |-> <<"n","a","n">>,
      status_type_name |-> "Open"] >>

\* Vacant properties: one about 70 m from event 1; one about 46 m from event 3
\* registered with a ZIP+4 code; one at the place of the first unfit property, in
\* another ZIP; one as far from event 2 as the second unfit property, on the other
\* side of it.
VacantRecs ==
  << [lat |-> 430485, lon |-> -761465, zip_code |-> <<"1","3","2","0","5">>, is_active |-> TRUE],
     [lat |-> 431003, lon |-> -760004, zip_code |-> <<"1","3","2","1","0","-","4","4","0","2">>, is_active |-> FALSE],
     [lat |-> 430481, lon |-> -761471, zip_code |-> <<"1","3","2","0","4">>, is_active |-> TRUE],
     [lat |-> 430502, lon |-> -761402, zip_code |-> <<"1","3","2","1","0">>, is_active |-> FALSE] >>

\* Code violations as loaded (tier 1..3): two within 100 m of event 1, one far away.
CvRecs ==
  << [lat |-> 430479, lon |-> -761468, tier |-> 3],
     [lat |-> 430480, lon |-> -761470, tier |-> 1],
     [lat |-> 430700, lon |-> -761200, tier |-> 2] >>

MaxCrime == 3
MaxUnfit == 1
MaxVacant == 1
MaxCv == 2

\* the elements of the index set I in increasing order
Ascending(I) ==
  CHOOSE s \in [1..Cardinality(I) -> I] : \A a, b \in 1..Cardinality(I) : a < b => s[a] < s[b]

\* the sub-lists of list with at least lo and at most hi rows, in list order
SubLists(list, lo, hi) ==
  { [i \in 1..Cardinality(I) |-> list[Ascending(I)[i]]] :
      I \in { J \in SUBSET (1..Len(list)) : Cardinality(J) >= lo /\ Cardinality(J) <= hi } }

\* a crime row before any join: LAT, LON and placeholders for the derived fields
CrimeRow(p) ==
  [LAT |-> p.lat, LON |-> p.lon,
   near_unfit |-> FALSE, near_vacant |-> FALSE, near_decay |-> FALSE,
   decay_zone |-> "", zip_code |-> <<>>,
   violation_count |-> 0, violation_severity_score |-> 0,
   has_critical_violation |-> FALSE]

CrimeFrame(pts) == [cols |-> {}, rows |-> [i \in 1..Len(pts) |-> CrimeRow(pts[i])]]

InitJoin ==
  /\ TierIdle
  /\ ClassifyIdle
  /\ GrangerIdle
  /\ CacheIdle
  /\ LoadIdle
  /\ crime \in { CrimeFrame(pts) : pts \in SubLists(CrimeLocs, 1, MaxCrime) }
  /\ unfit_clean \in SubLists(UnfitRecs, 0, MaxUnfit)
  /\ vacant \in SubLists(VacantRecs, 0, MaxVacant)
  /\ cv \in SubLists(CvRecs, 0, MaxCv)
  /\ crime_2024 = NoFrame
  /\ variant = "none"
  /\ jpc = "start"
  /\ jerr = "none"
  /\ tie_rounding \in RoundingOutcomes(c_coords(crime),
                                       zip_centroids(build_decay_index(unfit_clean, vacant)))

\* analysis/decay_index.run_spatial_joins(crime, unfit_clean, vacant): the columns
\* are attached to the caller's frame, which is also what is returned.  BallTree
\* raises ValueError on an array with no rows.
RunSpatialJoins ==
  /\ jpc = "start"
  /\ variant' = "module"
  /\ IF Len(u_coords(unfit_clean)) = 0
     THEN /\ jerr' = "BallTree(u_coords)"
          /\ jpc' = "error"
          /\ UNCHANGED <<crime, crime_2024>>
     ELSE IF Len(v_coords(vacant)) = 0
     THEN /\ crime' = WithNearUnfit(crime, unfit_clean)
          /\ jerr' = "BallTree(v_coords)"
          /\ jpc' = "error"
          /\ UNCHANGED crime_2024
     ELSE /\ crime' = run_spatial_joins(crime, unfit_clean, vacant)
          /\ crime_2024' = crime'
          /\ jpc' = "joined"
          /\ UNCHANGED jerr
  /\ UNCHANGED <<unfit_clean, vacant, cv, tie_rounding, tierVars, classVars, grangerVars, cacheVars, loadVars>>

\* crime_unfit_analysis.load_data, lines 45-67: the same join on crime_2024 =
\* crime.copy(); an exception leaves load_data without a result.
LoadDataJoin ==
  /\ jpc = "start"
  /\ variant' = "monolith"
  /\ IF Len(u_coords(unfit_clean)) = 0
     THEN /\ jerr' = "BallTree(u_coords)"
          /\ jpc' = "error"
          /\ UNCHANGED crime_2024
     ELSE IF Len(v_coords(vacant)) = 0
     THEN /\ jerr' = "BallTree(v_coords)"
          /\ jpc' = "error"
          /\ UNCHANGED crime_2024
     ELSE /\ crime_2024' = run_spatial_joins(crime, unfit_clean, vacant)
          /\ jpc' = "joined"
          /\ UNCHANGED jerr
  /\ UNCHANGED <<crime, unfit_clean, vacant, cv, tie_rounding, tierVars, classVars, grangerVars, cacheVars, loadVars>>

\* assign_crime_zip(crime, decay) with decay = build_decay_index(unfit_clean, vacant):
\* the nearest ZIP centroid of every crime, on a copy
AssignCrimeZip ==
  /\ jpc = "joined"
  /\ LET cents == zip_centroids(build_decay_index(unfit_clean, vacant))
         n     == Len(crime_2024.rows)
     IN IF cents = {}
        THEN /\ jerr' = "BallTree(centroid_coords)"
             /\ jpc' = "error"
             /\ UNCHANGED crime_2024
        ELSE /\ \E idx \in nearest_choices(crime_2024, cents) :
                  crime_2024' = AssignColumn(crime_2024, "zip_code",
                                             [i \in 1..n |-> idx[i].zip_code])
             /\ jpc' = "zipped"
             /\ UNCHANGED jerr
  /\ UNCHANGED <<crime, unfit_clean, vacant, cv, tie_rounding, variant, tierVars, classVars, grangerVars, cacheVars, loadVars>>

\* assign_crime_zip applied to its own output, with the same decay frame
ReassignCrimeZip ==
  /\ jpc = "zipped"
  /\ LET cents == zip_centroids(build_decay_index(unfit_clean, vacant))
         n     == Len(crime_2024.rows)
     IN \E idx \in nearest_choices(crime_2024, cents) :
          crime_2024' = AssignColumn(crime_2024, "zip_code",
                                     [i \in 1..n |-> idx[i].zip_code])
  /\ jpc' = "rezipped"
  /\ UNCHANGED <<crime, unfit_clean, vacant, cv, tie_rounding, variant, jerr, tierVars, classVars, grangerVars, cacheVars, loadVars>>

\* add_violation_features(crime, cv) / add_violation_features_to_crimes(crime_2024, cv)
AddViolationFeatures ==
  /\ jpc \in {"zipped", "rezipped"}
  /\ crime_2024' = add_violation_features(crime_2024, cv)
  /\ jpc' = "done"
  /\ UNCHANGED <<crime, unfit_clean, vacant, cv, tie_rounding, variant, jerr, tierVars, classVars, grangerVars, cacheVars, loadVars>>

NextJoin ==
  RunSpatialJoins \/ LoadDataJoin \/ AssignCrimeZip \/ ReassignCrimeZip \/ AddViolationFeatures

SpecJoin == InitJoin /\ [][NextJoin]_vars

\* ---- the claims about the spatial joins ----
\* the frames that exist in a state: the caller's frame and the returned frame
JoinFrames == {crime, crime_2024}

\* C3: in every frame that carries decay_zone, a crime event is 'Near Both' iff both
\* flags are set, 'Neither' iff none is, 'Near Unfit Only' iff only near_unfit is and
\* 'Near Vacant Only' iff only near_vacant is; the value is always one of the four.
Thm_C3_DecayZoneByFlags ==
  \A f \in JoinFrames : "decay_zone" \in f.cols =>
    \A i \in 1..Len(f.rows) :
      LET r == f.rows[i] IN
        /\ r.decay_zone \in {"Near Both", "Neither", "Near Unfit Only", "Near Vacant Only"}
        /\ (r.decay_zone = "Near Both") <=> (r.near_unfit /\ r.near_vacant)
        /\ (r.decay_zone = "Neither") <=> (~r.near_unfit /\ ~r.near_vacant)
        /\ (r.decay_zone = "Near Unfit Only") <=> (r.near_unfit /\ ~r.near_vacant)
        /\ (r.decay_zone = "Near Vacant Only") <=> (~r.near_unfit /\ r.near_vacant)

\* C3 witness: a joined frame with one event near both kinds and one near neither.
Wit_C3_BothAndNeither ==
  /\ jpc = "joined"
  /\ \E i, k \in 1..Len(crime_2024.rows) :
       /\ crime_2024.rows[i].decay_zone = "Near Both"
       /\ crime_2024.rows[k].decay_zone = "Neither"

\* C4: in every frame that carries near_decay, near_decay = near_unfit OR near_vacant;
\* this includes the frame load_data returns after ZIP assignment and the violation
\* features.
Thm_C4_NearDecayIsOr ==
  \A f \in JoinFrames : "near_decay" \in f.cols =>
    \A i \in 1..Len(f.rows) :
      f.rows[i].near_decay = (f.rows[i].near_unfit \/ f.rows[i].near_vacant)

\* C4 witness: load_data is through, and an event is near unfit but not near vacant.
Wit_C4_FinalFrameOneFlag ==
  /\ jpc = "done"
  /\ variant = "monolith"
  /\ {"near_decay", "zip_code", "violation_count"} \subseteq crime_2024.cols
  /\ \E i \in 1..Len(crime_2024.rows) :
       /\ crime_2024.rows[i].near_decay
       /\ crime_2024.rows[i].near_unfit
       /\ ~crime_2024.rows[i].near_vacant

\* C5, as claimed: an empty reference set raises nothing and yields zero/false
\* outputs: near_unfit / near_vacant False for an empty unfit / vacant set, and zero
\* counts, zero score and no critical flag for an empty violation set.
Claim_C5_EmptyReferenceDefaults ==
  /\ Len(unfit_clean) = 0 =>
       /\ jerr # "BallTree(u_coords)"
       /\ jpc \in {"joined", "zipped", "done"} =>
            \A i \in 1..Len(crime_2024.rows) : ~crime_2024.rows[i].near_unfit
  /\ Len(vacant) = 0 =>
       /\ jerr # "BallTree(v_coords)"
       /\ jpc \in {"joined", "zipped", "done"} =>
            \A i \in 1..Len(crime_2024.rows) : ~crime_2024.rows[i].near_vacant
  /\ (Len(cv) = 0 /\ jpc = "done") =>
       \A i \in 1..Len(crime_2024.rows) :
         /\ crime_2024.rows[i].violation_count = 0
         /\ crime_2024.rows[i].violation_severity_score = 0
         /\ ~crime_2024.rows[i].has_critical_violation

\* ---- the end-to-end scenario ----
\* three crime events and the single unfit property at (43.0481,-76.1471)
Scenario ==
  /\ c_coords(crime) = CrimeLocs
  /\ unfit_clean = << UnfitRecs[1] >>

\* C10, as claimed: the scenario ends with near_unfit and violation_count >= 1 for
\* event 1 and near_unfit False for events 2 and 3.
Claim_C10_ScenarioAsStated ==
  (Scenario /\ jpc = "done") =>
    /\ crime_2024.rows[1].near_unfit
    /\ crime_2024.rows[1].violation_count >= 1
    /\ ~crime_2024.rows[2].near_unfit
    /\ ~crime_2024.rows[3].near_unfit

\* C10, amended: in the scenario every frame that carries near_unfit has it True for
\* event 1 and False for events 2 and 3; at the end violation_count of event 1 is at
\* least 1 exactly when the code-violation set holds one of the records lying within
\* 100 m of event 1 (the unfit property is not counted as a violation).
Thm_C10_ScenarioAmended ==
  Scenario =>
    /\ \A f \in JoinFrames : "near_unfit" \in f.cols =>
         /\ f.rows[1].near_unfit
         /\ ~f.rows[2].near_unfit
         /\ ~f.rows[3].near_unfit
    /\ jpc = "done" =>
         ((crime_2024.rows[1].violation_count >= 1)
            <=> (\E j \in 1..Len(cv) : cv[j] \in {CvRecs[1], CvRecs[2]}))

\* C10 witness: the scenario ran to the end with a violation record near event 1.
Wit_C10_ScenarioDone ==
  /\ Scenario
  /\ jpc = "done"
  /\ crime_2024.rows[1].near_unfit
  /\ crime_2024.rows[1].violation_count >= 1
  /\ ~crime_2024.rows[2].near_unfit
  /\ ~crime_2024.rows[3].near_unfit

(***************************************************************************)
(* Neighborhood classification                                             *)
(***************************************************************************)
\* ---- exact fractions <<numerator, denominator>>, denominator > 0 ----
RECURSIVE GCD(_, _)
GCD(a, b) == IF b = 0 THEN a ELSE GCD(b, a % b)


\* the fraction in lowest terms
Reduce(a) ==
  LET g == GCD(Abs(a[1]), a[2]) IN IF g = 0 THEN a ELSE << a[1] \div g, a[2] \div g >>

Frac(n) == << n, 1 >>
RAdd(a, b) == Reduce(<< a[1] * b[2] + b[1] * a[2], a[2] * b[2] >>)
RSub(a, b) == Reduce(<< a[1] * b[2] - b[1] * a[2], a[2] * b[2] >>)
RMul(a, b) == Reduce(<< a[1] * b[1], a[2] * b[2] >>)
\* a / b for b > 0
RDiv(a, b) == Reduce(<< a[1] * b[2], a[2] * b[1] >>)
RLess(a, b) == a[1] * b[2] < b[1] * a[2]
REq(a, b) == a[1] * b[2] = b[1] * a[2]

\* Series.max() and Series.min() of a sequence of fractions
RMax(s) == s[CHOOSE i \in 1..Len(s) : \A k \in 1..Len(s) : ~RLess(s[i], s[k])]
RMin(s) == s[CHOOSE i \in 1..Len(s) : \A k \in 1..Len(s) : ~RLess(s[k], s[i])]

\* Series.median() of a sequence of integers, as a fraction
Median(s) ==
  LET n == Len(s)
      v == CHOOSE p \in [1..n -> 1..n] :
             /\ \A a, b \in 1..n : a # b => p[a] # p[b]
             /\ \A a \in 1..(n - 1) : s[p[a]] <= s[p[a + 1]]
  IN IF n % 2 = 1 THEN Frac(s[v[(n + 1) \div 2]])
     ELSE << s[v[n \div 2]] + s[v[(n \div 2) + 1]], 2 >>

\* pandas NaN in an integer-valued column
NaN == -1

\* The mutant of merged_nbr: crime_count is not filled after the left merge, so a
\* ZIP without crime events keeps NaN.
merged_nbr_no_fillna(crime_rows, decay, unfit_raw) ==
  LET zips == SortedKeys({ decay[j].zip_code : j \in 1..Len(decay) })
  IN [i \in 1..Len(zips) |->
       LET z  == zips[i]
           IsU(r) == r.zip_code = z /\ r.decay_type = "Unfit Property"
           IsV(r) == r.zip_code = z /\ r.decay_type = "Vacant Property"
           InZ(r) == r.zip_code = z
           UfZ(r) == strip(r.zip) = z
           UfOpen(r) == strip(r.zip) = z /\ r.status_type_name = "Open"
           U  == Cardinality({ j \in 1..Len(decay) : IsU(decay[j]) })
           V  == Cardinality({ j \in 1..Len(decay) : IsV(decay[j]) })
           ds == U + V
           cc == Cardinality({ j \in 1..Len(crime_rows) : InZ(crime_rows[j]) })
           tot == Cardinality({ j \in 1..Len(unfit_raw) : UfZ(unfit_raw[j]) })
           opn == Cardinality({ j \in 1..Len(unfit_raw) : UfOpen(unfit_raw[j]) })
       IN [zip_code |-> z,
           Unfit_Property |-> U,
           Vacant_Property |-> V,
           decay_score |-> ds,
           unfit_ratio |-> << U, IF ds = 0 THEN 1 ELSE ds >>,
           crime_count |-> IF cc = 0 THEN NaN ELSE cc,
           pct_unresolved |-> IF tot = 0 THEN << 0, 1 >> ELSE << opn, tot >>,
           total_unfit |-> IF tot = 0 THEN NaN ELSE tot,
           open_unfit |-> IF tot = 0 THEN NaN ELSE opn,
           zone_type |-> "",
           risk_score |-> << 0, 1 >>]]

\* classify_neighborhoods up to the two fillna calls: decay_zip merged (how='left')
\* with crime_zip and unresolved, one row per ZIP of decay in sorted ZIP order
merged_nbr(crime_rows, decay, unfit_raw) ==
  LET zips == SortedKeys({ decay[j].zip_code : j \in 1..Len(decay) })
  IN [i \in 1..Len(zips) |->
       LET z  == zips[i]
           IsU(r) == r.zip_code = z /\ r.decay_type = "Unfit Property"
           IsV(r) == r.zip_code = z /\ r.decay_type = "Vacant Property"
           InZ(r) == r.zip_code = z
           UfZ(r) == strip(r.zip) = z
           UfOpen(r) == strip(r.zip) = z /\ r.status_type_name = "Open"
           U  == Cardinality({ j \in 1..Len(decay) : IsU(decay[j]) })
           V  == Cardinality({ j \in 1..Len(decay) : IsV(decay[j]) })
           ds == U + V
           cc == Cardinality({ j \in 1..Len(crime_rows) : InZ(crime_rows[j]) })
           tot == Cardinality({ j \in 1..Len(unfit_raw) : UfZ(unfit_raw[j]) })
           opn == Cardinality({ j \in 1..Len(unfit_raw) : UfOpen(unfit_raw[j]) })
       IN [zip_code |-> z,
           Unfit_Property |-> U,
           Vacant_Property |-> V,
           decay_score |-> ds,
           unfit_ratio |-> << U, IF ds = 0 THEN 1 ELSE ds >>,
           crime_count |-> cc,
           pct_unresolved |-> IF tot = 0 THEN << 0, 1 >> ELSE << opn, tot >>,
           total_unfit |-> IF tot = 0 THEN NaN ELSE tot,
           open_unfit |-> IF tot = 0 THEN NaN ELSE opn,
           zone_type |-> "",
           risk_score |-> << 0, 1 >>]]

\* unfit_ratio_threshold = 0.4
UnfitRatioThreshold == << 4, 10 >>

\* The mutant of classify: the decay test comes first, so a high-crime high-decay
\* ZIP is reported as Type B.
classify_decay_first(row, crime_median, decay_median) ==
  LET high_decay  == RLess(decay_median, Frac(row.decay_score))
      unfit_heavy == RLess(UnfitRatioThreshold, row.unfit_ratio)
  IN IF high_decay THEN "Type B"
     ELSE IF unfit_heavy THEN "Type C"
     ELSE "Low Risk"

\* A second mutant of classify: 'high' means at or above the median.
classify_at_median(row, crime_median, decay_median) ==
  LET high_crime  == ~RLess(Frac(row.crime_count), crime_median)
      high_decay  == ~RLess(Frac(row.decay_score), decay_median)
      unfit_heavy == RLess(UnfitRatioThreshold, row.unfit_ratio)
  IN IF high_crime /\ high_decay THEN "Type A"
     ELSE IF high_decay THEN "Type B"
     ELSE IF unfit_heavy THEN "Type C"
     ELSE "Low Risk"

\* analysis/decay_index.py: classify_neighborhoods.classify
classify(row, crime_median, decay_median) ==
  LET high_crime  == RLess(crime_median, Frac(row.crime_count))
      high_decay  == RLess(decay_median, Frac(row.decay_score))
      unfit_heavy == RLess(UnfitRatioThreshold, row.unfit_ratio)
  IN IF high_crime /\ high_decay THEN "Type A"
     ELSE IF high_decay THEN "Type B"
     ELSE IF unfit_heavy THEN "Type C"
     ELSE "Low Risk"

\* crime_unfit_analysis.py: classify_neighborhoods.classify
classify_monolith(row, crime_median, decay_median) ==
  LET high_crime  == RLess(crime_median, Frac(row.crime_count))
      high_decay  == RLess(decay_median, Frac(row.decay_score))
      unfit_heavy == RLess(UnfitRatioThreshold, row.unfit_ratio)
  IN IF high_crime /\ high_decay THEN "Type A"
     ELSE IF high_decay /\ ~high_crime THEN "Type B"
     ELSE IF unfit_heavy /\ ~high_crime THEN "Type C"
     ELSE "Low Risk"

\* The mutant of norm: a constant column is returned as it is instead of as zeros.
norm_keep_constant(s) ==
  LET rng == RSub(RMax(s), RMin(s))
  IN IF RLess(Frac(0), rng)
     THEN [i \in 1..Len(s) |-> RDiv(RSub(s[i], RMin(s)), rng)]
     ELSE s

\* classify_neighborhoods.norm: (s - s.min()) / rng if rng > 0 else s * 0
norm(s) ==
  LET rng == RSub(RMax(s), RMin(s))
  IN IF RLess(Frac(0), rng)
     THEN [i \in 1..Len(s) |-> RDiv(RSub(s[i], RMin(s)), rng)]
     ELSE [i \in 1..Len(s) |-> RMul(s[i], Frac(0))]

\* the three columns that enter the risk score, as sequences of fractions
CrimeCountCol(rows) == [i \in 1..Len(rows) |-> Frac(rows[i].crime_count)]
DecayScoreCol(rows) == [i \in 1..Len(rows) |-> Frac(rows[i].decay_score)]
PctUnresolvedCol(rows) == [i \in 1..Len(rows) |-> rows[i].pct_unresolved]

\* norm applied to the three columns, as in the risk_score expression
norms_of(rows) ==
  [crime_count    |-> norm(CrimeCountCol(rows)),
   decay_score    |-> norm(DecayScoreCol(rows)),
   pct_unresolved |-> norm(PctUnresolvedCol(rows))]

\* The mutant of risk_scores: the weighted sum is not multiplied by 100.
risk_scores_unscaled(ns) ==
  [i \in 1..Len(ns.crime_count) |->
     RAdd(RAdd(RMul(ns.crime_count[i], << 40, 100 >>),
               RMul(ns.decay_score[i], << 35, 100 >>)),
          RMul(ns.pct_unresolved[i], << 25, 100 >>))]

\* (norm(crime_count) * 0.40 + norm(decay_score) * 0.35 + norm(pct_unresolved) * 0.25) * 100
risk_scores(ns) ==
  [i \in 1..Len(ns.crime_count) |->
     RMul(RAdd(RAdd(RMul(ns.crime_count[i], << 40, 100 >>),
                    RMul(ns.decay_score[i], << 35, 100 >>)),
               RMul(ns.pct_unresolved[i], << 25, 100 >>)),
          Frac(100))]

\* classify_neighborhoods before the final sort; which is "module" or "monolith"
nbr_unsorted(crime_rows, decay, unfit_raw, which) ==
  LET m  == merged_nbr(crime_rows, decay, unfit_raw)
      cm == Median([i \in 1..Len(m) |-> m[i].crime_count])
      dm == Median([i \in 1..Len(m) |-> m[i].decay_score])
      rs == risk_scores(norms_of(m))
  IN [i \in 1..Len(m) |->
       [m[i] EXCEPT
          !.zone_type = IF which = "module" THEN classify(m[i], cm, dm)
                        ELSE classify_monolith(m[i], cm, dm),
          !.risk_score = rs[i]]]

\* nbr.sort_values('risk_score', ascending=False) with the default kind
\* ('quicksort', which is not stable): every arrangement of the rows in which the
\* scores descend.
sort_values_descending(rows) ==
  { out \in { [i \in 1..Len(rows) |-> rows[p[i]]] :
                p \in { q \in [1..Len(rows) -> 1..Len(rows)] :
                          \A a, b \in 1..Len(rows) : a # b => q[a] # q[b] } } :
      \A a \in 1..(Len(out) - 1) : ~RLess(out[a].risk_score, out[a + 1].risk_score) }

\* ---- inputs of the classification specification ----
\* Frames are drawn by their per-ZIP row counts: the classifier groups by zip_code
\* and counts, so the order of the input rows does not enter.
ZipCodes == << <<"1","3","2","0","4">>, <<"1","3","2","0","5">>, <<"1","3","2","1","0">> >>

MaxClUnfit == 2
MaxClVacant == 1
MaxClCrime == 2

\* k copies of the row x
Rep(x, k) == [i \in 1..k |-> x]

RECURSIVE Flatten(_)
Flatten(ss) == IF ss = <<>> THEN <<>> ELSE Head(ss) \o Flatten(Tail(ss))

\* per-ZIP counts with a bounded total
Counts(max) ==
  { c \in [1..Len(ZipCodes) -> 0..max] : SumOver(c, 1..Len(ZipCodes)) <= max }

UnfitRow(k, status) ==
  [Latitude |-> CrimeLocs[k].lat, Longitude |-> CrimeLocs[k].lon,
   zip |-> ZipCodes[k], status_type_name |-> status]

VacantRow(k) ==
  [lat |-> CrimeLocs[k].lat, lon |-> CrimeLocs[k].lon,
   zip_code |-> ZipCodes[k], is_active |-> TRUE]

\* t[k] unfit rows in ZIP k, of which o[k] are open
UnfitRows(t, o) ==
  Flatten([k \in 1..Len(ZipCodes) |->
             Rep(UnfitRow(k, "Open"), o[k]) \o Rep(UnfitRow(k, "Closed"), t[k] - o[k])])

VacantRows(v) == Flatten([k \in 1..Len(ZipCodes) |-> Rep(VacantRow(k), v[k])])

\* c[k] crime events with zip_code k
ZippedCrimeFrame(c) ==
  [cols |-> {"zip_code"},
   rows |-> Flatten([k \in 1..Len(ZipCodes) |->
                       Rep([CrimeRow(CrimeLocs[k]) EXCEPT !.zip_code = ZipCodes[k]], c[k])])]

JoinInputsIdle ==
  /\ crime = NoFrame
  /\ cv = <<>>
  /\ variant = "none"
  /\ jpc = "idle"
  /\ jerr = "none"
  /\ tie_rounding = << >>

\* the frames classify_neighborhoods receives: unfit (here every unfit row has
\* coordinates, so unfit_clean = unfit), decay = build_decay_index(unfit_clean,
\* vacant), not empty, and crime events whose zip_code is a ZIP of decay
InitClassify ==
  /\ TierIdle
  /\ JoinInputsIdle
  /\ GrangerIdle
  /\ CacheIdle
  /\ LoadIdle
  /\ unfit \in { UnfitRows(to[1], to[2]) :
                   to \in { x \in Counts(MaxClUnfit) \X Counts(MaxClUnfit) :
                              \A k \in 1..Len(ZipCodes) : x[2][k] <= x[1][k] } }
  /\ unfit_clean = unfit
  /\ vacant \in { VacantRows(v) : v \in Counts(MaxClVacant) }
  /\ Len(unfit_clean) + Len(vacant) >= 1
  /\ crime_2024 \in
       { ZippedCrimeFrame(c) :
           c \in { cc \in Counts(MaxClCrime) :
                     \A k \in 1..Len(ZipCodes) : cc[k] > 0 =>
                        \E j \in 1..Len(build_decay_index(unfit_clean, vacant)) :
                           build_decay_index(unfit_clean, vacant)[j].zip_code = ZipCodes[k] } }
  /\ nbr = <<>>
  /\ norm_out = [crime_count |-> <<>>, decay_score |-> <<>>, pct_unresolved |-> <<>>]
  /\ cpc = "start"

\* analysis/decay_index.classify_neighborhoods(crime, decay, unfit)
ClassifyNeighborhoods ==
  /\ cpc = "start"
  /\ LET decay == build_decay_index(unfit_clean, vacant) IN
       /\ norm_out' = norms_of(merged_nbr(crime_2024.rows, decay, unfit))
       /\ nbr' \in sort_values_descending(
                     nbr_unsorted(crime_2024.rows, decay, unfit, "module"))
  /\ cpc' = "module"
  /\ UNCHANGED <<unfit, tierVars, joinVars, grangerVars, cacheVars, loadVars>>

\* crime_unfit_analysis.classify_neighborhoods(crime_2024, decay, unfit)
ClassifyNeighborhoodsMonolith ==
  /\ cpc = "start"
  /\ LET decay == build_decay_index(unfit_clean, vacant) IN
       /\ norm_out' = norms_of(merged_nbr(crime_2024.rows, decay, unfit))
       /\ nbr' \in sort_values_descending(
                     nbr_unsorted(crime_2024.rows, decay, unfit, "monolith"))
  /\ cpc' = "monolith"
  /\ UNCHANGED <<unfit, tierVars, joinVars, grangerVars, cacheVars, loadVars>>

NextClassify == ClassifyNeighborhoods \/ ClassifyNeighborhoodsMonolith

SpecClassify == InitClassify /\ [][NextClassify]_vars

\* ---- the claims about the classifier ----
Classified == cpc \in {"module", "monolith"}

\* the medians over all ZIP rows of the returned table
CrimeMedian == Median([i \in 1..Len(nbr) |-> nbr[i].crime_count])
DecayMedian == Median([i \in 1..Len(nbr) |-> nbr[i].decay_score])

HighCrime(r) == RLess(CrimeMedian, Frac(r.crime_count))
HighDecay(r) == RLess(DecayMedian, Frac(r.decay_score))
UnfitHeavy(r) == 5 * r.unfit_ratio[1] > 2 * r.unfit_ratio[2]

\* C6: a ZIP whose crime_count and decay_score are both strictly above their medians
\* is Type A in the output of either classify_neighborhoods, whatever its unfit_ratio.
Thm_C6_HighHighIsTypeA ==
  Classified =>
    \A i \in 1..Len(nbr) :
      (HighCrime(nbr[i]) /\ HighDecay(nbr[i])) => nbr[i].zone_type = "Type A"

\* C6 witness: a Type A ZIP that is also unfit-heavy, from the module's classifier.
Wit_C6_TypeAUnfitHeavy ==
  /\ cpc = "module"
  /\ \E i \in 1..Len(nbr) :
       /\ HighCrime(nbr[i])
       /\ HighDecay(nbr[i])
       /\ UnfitHeavy(nbr[i])
       /\ nbr[i].zone_type = "Type A"

\* C7, as claimed: in both copies a ZIP that is not Type A is Type B if its decay_score
\* is strictly above the median, otherwise Type C if unfit_ratio > 0.4 whatever its
\* crime_count, otherwise Low Risk.
Claim_C7_FallThroughOrder ==
  Classified =>
    \A i \in 1..Len(nbr) :
      nbr[i].zone_type # "Type A" =>
        nbr[i].zone_type = (IF HighDecay(nbr[i]) THEN "Type B"
                            ELSE IF UnfitHeavy(nbr[i]) THEN "Type C"
                            ELSE "Low Risk")

\* the column s that norm received, for each of the three normalised columns
NormInput ==
  LET m == merged_nbr(crime_2024.rows, build_decay_index(unfit_clean, vacant), unfit)
  IN [crime_count    |-> CrimeCountCol(m),
      decay_score    |-> DecayScoreCol(m),
      pct_unresolved |-> PctUnresolvedCol(m)]

\* C8: norm(s) is all zero when every value of s is equal; otherwise every value is
\* in [0,1], the minimum of s maps to 0 and the maximum to 1.
Thm_C8_NormRange ==
  Classified =>
    \A col \in {"crime_count", "decay_score", "pct_unresolved"} :
      LET s == NormInput[col]
          r == norm_out[col]
          n == Len(s)
      IN /\ Len(r) = n
         /\ IF \A i, k \in 1..n : REq(s[i], s[k])
            THEN \A i \in 1..n : r[i][1] = 0
            ELSE \A i \in 1..n :
                   /\ r[i][1] >= 0
                   /\ r[i][1] <= r[i][2]
                   /\ (\A k \in 1..n : ~RLess(s[k], s[i])) => r[i][1] = 0
                   /\ (\A k \in 1..n : ~RLess(s[i], s[k])) => r[i][1] = r[i][2]

\* C8 witness: crime_count varies (its norm reaches 0 and 1) while decay_score is the
\* same non-zero value in two or more ZIPs (its norm is all zero).
Wit_C8_VaryingAndConstant ==
  /\ Classified
  /\ Len(nbr) >= 2
  /\ \E i, k \in 1..Len(nbr) :
       /\ norm_out.crime_count[i] = << 0, 1 >>
       /\ norm_out.crime_count[k] = << 1, 1 >>
  /\ \A i \in 1..Len(nbr) : nbr[i].decay_score = nbr[1].decay_score
  /\ \A i \in 1..Len(nbr) : norm_out.decay_score[i][1] = 0

(***************************************************************************)
(* Granger causality                                                       *)
(***************************************************************************)
\* Periods are months, numbered 1, 2, ...; p-values are integers in units of
\* 0.00001, so that 0.05 is 5000.  What adfuller and grangercausalitytests compute
\* from the counts is not modelled: each call returns one of a few p-values or
\* raises.
P05 == 5000

\* the rows of pd.merge(monthly_crime, monthly_other, on='period', how='inner')
\* .sort_values('period'): the common periods in ascending order
RECURSIVE sort_periods(_)
sort_periods(S) ==
  IF S = {} THEN <<>>
  ELSE LET first == CHOOSE x \in S : \A y \in S : x <= y
       IN <<first>> \o sort_periods(S \ {first})

merge_inner(a, b) == sort_periods(a \cap b)

\* the minimum overlap: len(ts) < 10 in run_granger_causality, < 24 in
\* run_granger_causality_cv; the mutant uses 10 in both
min_overlap_always_10(fn) == 10

\* A second mutant of min_overlap: 3 common periods are enough in both functions.
min_overlap_always_3(fn) == 3

min_overlap(fn) == IF fn = "unfit" THEN 10 ELSE 24

Min(a, b) == IF a < b THEN a ELSE b

\* The mutant of max_lag_of: the caps 4 and 6 are missing.
max_lag_of_uncapped(fn, n) == IF fn = "unfit" THEN n \div 4 ELSE n \div 5

\* max_lag = min(4, len(ts) // 4), resp. min(6, len(ts_diff) // 5)
max_lag_of(fn, n) == IF fn = "unfit" THEN Min(4, n \div 4) ELSE Min(6, n \div 5)

\* The mutant of is_significant: the flag is set whatever the p-value.
is_significant_always(p) == TRUE

\* 'significant': p_ssr_ftest < 0.05 (resp. p < 0.05), on the p-value as computed
is_significant(p) == p < P05

\* round(p, 4) for a p-value p in units of 0.00001, a numpy float64: numpy computes
\* rint(x * 10^4) / 10^4 on the float x nearest to the decimal value, and rint
\* rounds a half to the even neighbour.  When the fifth decimal is not 5 this is
\* the nearest multiple of 0.0001.  When it is 5, x lies r/3125 (below) or
\* (3125 - r)/3125 (above) of its last binary place from the decimal value, and
\* the product x * 10^4 is either the half itself or the float next to it.
RECURSIVE Pow2Mod3125(_)
Pow2Mod3125(e) == IF e = 0 THEN 1 ELSE (2 * Pow2Mod3125(e - 1)) % 3125

\* the number of doublings that bring v to 100000 or more
RECURSIVE Doublings(_)
Doublings(v) == IF v >= 100000 THEN 0 ELSE 1 + Doublings(2 * v)

\* rint of k + 1/2, in units of 0.00001
half_to_even(k) == IF k % 2 = 0 THEN k * 10 ELSE (k + 1) * 10

round4(p) ==
  IF p % 10 # 5 THEN ((p + 5) \div 10) * 10
  ELSE LET k     == p \div 10
           g     == Doublings(p)
           r     == ((p % 3125) * Pow2Mod3125(47 + g)) % 3125
           below == 2 * r < 3125
           f     == IF below THEN r ELSE 3125 - r
       IN IF r = 0 \/ p * 2^g >= 163840 \/ f * 20000 <= 25600000
          THEN half_to_even(k)
          ELSE IF below THEN k * 10 ELSE (k + 1) * 10

\* The merged frame ts: one row per common period.  The counts themselves are not
\* modelled; a cell holds the number of times its column has been differenced, or
\* NaN.
ts_frame(periods) ==
  [i \in 1..Len(periods) |-> [period |-> periods[i], crime_count |-> 0, other_count |-> 0]]

\* Series.diff(): the first cell becomes NaN, every other cell the difference to
\* the cell before it
diff(col) ==
  [i \in 1..Len(col) |->
     IF i = 1 THEN NaN
     ELSE IF col[i] = NaN \/ col[i - 1] = NaN THEN NaN
     ELSE col[i] + 1]

\* ts['crime_count'] = ts['crime_count'].diff()
diff_crime_count(ts) ==
  LET col == diff([i \in 1..Len(ts) |-> ts[i].crime_count])
  IN [i \in 1..Len(ts) |-> [ts[i] EXCEPT !.crime_count = col[i]]]

\* ts['unfit_count'] = ts['unfit_count'].diff(), resp. violation_count
diff_other_count(ts) ==
  LET col == diff([i \in 1..Len(ts) |-> ts[i].other_count])
  IN [i \in 1..Len(ts) |-> [ts[i] EXCEPT !.other_count = col[i]]]

\* ts.dropna()
dropna(ts) ==
  LET Complete(r) == r.crime_count # NaN /\ r.other_count # NaN IN SelectSeq(ts, Complete)

\* The mutant of non_stationary: a p-value of exactly 0.05 counts as non-stationary.
non_stationary_from_005(p) == p >= P05

\* adf[1] > 0.05
non_stationary(p) == p > P05

\* lines 400-404 (473-478): each column is differenced if its ADF p-value is
\* > 0.05, then the rows with NaN are dropped
stationary_frame(periods, adf_crime_p, adf_other_p) ==
  LET ts0 == ts_frame(periods)
      ts1 == IF non_stationary(adf_crime_p) THEN diff_crime_count(ts0) ELSE ts0
      ts2 == IF non_stationary(adf_other_p) THEN diff_other_count(ts1) ELSE ts1
  IN dropna(ts2)

\* the periods of the rows that are tested
diff_dropna(periods, adf_crime_p, adf_other_p) ==
  LET tested == stationary_frame(periods, adf_crime_p, adf_other_p)
  IN [i \in 1..Len(tested) |-> tested[i].period]

\* what one lag of grangercausalitytests reports: <<ssr_ftest p, ssr_chi2test p>>
LagOutcomes == { << 100, 90 >>, << 4996, 4950 >>, << 30000, 29500 >> }

\* the p-values adfuller returns
AdfPValues == { 5000, 20000 }

MaxMonths == 35
MaxSpecial == 1

\* an outcome of adfuller: it raises, or returns a p-value
AdfOutcomes ==
  { [raised |-> TRUE, p |-> 0] } \cup { [raised |-> FALSE, p |-> q] : q \in AdfPValues }

\* an outcome of grangercausalitytests(data, maxlag): it raises, while it checks its
\* arguments (failed = {0}) or in the regressions of one lag (failed = {lag}), or it
\* returns one result per lag 1..maxlag; at most MaxSpecial lags differ from the
\* plain non-significant outcome
GcOutcomes(maxlag) ==
  { [raised |-> TRUE, failed |-> {f}, lags |-> <<>>] : f \in 0..maxlag } \cup
  UNION { { [raised |-> FALSE, failed |-> {},
             lags |-> [l \in 1..maxlag |-> IF l \in S THEN h[l] ELSE << 30000, 29500 >>]] :
              h \in [S -> LagOutcomes \ { << 30000, 29500 >> }] } :
          S \in { T \in SUBSET (1..maxlag) : Cardinality(T) <= MaxSpecial } }

NoResult ==
  [kind |-> "none", rows |-> <<>>, sig1 |-> {}, sig2 |-> {}, ts |-> <<>>,
   interpretation |-> "", adf_calls |-> 0, gc_calls |-> 0,
   max_lag |-> 0, gc_failed |-> <<>>, adf_p |-> <<>>, tested |-> <<>>]

\* run_granger_causality(crime, unfit) on the merged periods, given what the
\* library calls do.  kind: "insufficient" and "error" are the returns with results
\* None, "ok" a return with a results frame, "raised" an exception that leaves the
\* function.
run_granger_causality(periods, adf_crime, adf_unfit, gc) ==
  IF Len(periods) < min_overlap("unfit")
  THEN [NoResult EXCEPT !.kind = "insufficient", !.ts = periods,
          !.interpretation = "Insufficient overlapping time periods for Granger test."]
  ELSE IF adf_crime.raised
  THEN [NoResult EXCEPT !.kind = "raised", !.adf_calls = 1]
  ELSE IF adf_unfit.raised
  THEN [NoResult EXCEPT !.kind = "raised", !.adf_calls = 2]
  ELSE
    Only({
      LET ts2 == [i \in 1..Len(tested) |-> tested[i].period]
          ml  == max_lag_of("unfit", Len(tested))
      IN IF gc.raised
         THEN [NoResult EXCEPT !.kind = "error", !.ts = ts2, !.adf_calls = 2, !.gc_calls = 1,
                 !.interpretation = "Granger test error",
                 !.max_lag = ml, !.gc_failed = << gc.failed >>,
                 !.adf_p = << adf_crime.p, adf_unfit.p >>,
                 !.tested = tested]
         ELSE
           LET lag_results ==
                 [lag \in 1..ml |->
                    [lag_months    |-> lag,
                     p_value_ftest |-> round4(gc.lags[lag][1]),
                     p_value_chi2  |-> round4(gc.lags[lag][2]),
                     significant   |-> is_significant(gc.lags[lag][1])]]
               significant_lags == { l \in 1..ml : lag_results[l].significant }
           IN [kind |-> "ok", rows |-> lag_results, sig1 |-> significant_lags, sig2 |-> {},
               ts |-> ts2,
               interpretation |-> IF significant_lags # {} THEN "detected" ELSE "none",
               adf_calls |-> 2, gc_calls |-> 1,
               max_lag |-> ml, gc_failed |-> << gc.failed >>,
               adf_p |-> << adf_crime.p, adf_unfit.p >>,
               tested |-> tested]
      : tested \in { stationary_frame(periods, adf_crime.p, adf_unfit.p) } })

\* one direction of run_granger_causality_cv: the rows, or [] when the call raised
direction_rows(gc, ml, direction) ==
  IF gc.raised THEN <<>>
  ELSE [lag \in 1..ml |->
          [lag_months  |-> lag,
           p_value     |-> round4(gc.lags[lag][1]),
           significant |-> is_significant(gc.lags[lag][1]),
           direction   |-> direction]]

\* The mutant of cv_interpretation: one significant direction is enough for
\* 'bidirectional'.
cv_interpretation_either(s1, s2) ==
  IF s1 # {} \/ s2 # {} THEN "bidirectional" ELSE "none"

\* run_granger_causality_cv: the interpretation chosen from sig1 and sig2
cv_interpretation(s1, s2) ==
  IF s1 # {} /\ s2 # {} THEN "bidirectional"
  ELSE IF s1 # {} THEN "Violations -> Crime"
  ELSE IF s2 # {} THEN "Crime -> Violations"
  ELSE "none"

\* run_granger_causality_cv(crime, cv) on the merged periods
run_granger_causality_cv(periods, adf_crime, adf_cv, gc1, gc2) ==
  IF Len(periods) < min_overlap("cv")
  THEN [NoResult EXCEPT !.kind = "insufficient", !.ts = periods,
          !.interpretation = "Insufficient overlapping time periods."]
  ELSE IF adf_crime.raised
  THEN [NoResult EXCEPT !.kind = "raised", !.adf_calls = 1]
  ELSE IF adf_cv.raised
  THEN [NoResult EXCEPT !.kind = "raised", !.adf_calls = 2]
  ELSE
    Only({
      LET ml    == max_lag_of("cv", Len(tested))
          lags1 == direction_rows(gc1, ml, "Violations -> Crime")
          lags2 == direction_rows(gc2, ml, "Crime -> Violations")
          s1    == { lags1[i].lag_months : i \in { k \in 1..Len(lags1) : lags1[k].significant } }
          s2    == { lags2[i].lag_months : i \in { k \in 1..Len(lags2) : lags2[k].significant } }
      IN [kind |-> "ok", rows |-> lags1 \o lags2, sig1 |-> s1, sig2 |-> s2,
          ts |-> periods,
          interpretation |-> cv_interpretation(s1, s2),
          adf_calls |-> 2, gc_calls |-> 2,
          max_lag |-> ml, gc_failed |-> << gc1.failed, gc2.failed >>,
          adf_p |-> << adf_crime.p, adf_cv.p >>,
          tested |-> tested]
      : tested \in { stationary_frame(periods, adf_crime.p, adf_cv.p) } })

\* grangercausalitytests is reached only past the overlap check and the two
\* adfuller calls; on the other paths the library is not called and has no outcome
GcReached(fn, periods, adf_crime, adf_other) ==
  /\ Len(periods) >= min_overlap(fn)
  /\ ~adf_crime.raised
  /\ ~adf_other.raised

GcNotCalled == [raised |-> FALSE, failed |-> {}, lags |-> <<>>]

\* ---- inputs of the Granger specification ----
\* the crime series covers months 1..MaxMonths; the other series covers the
\* months 1..hi, or starts a month later and ends a month later than the crime
\* series
InitGranger ==
  /\ TierIdle
  /\ JoinIdle
  /\ ClassifyIdle
  /\ CacheIdle
  /\ LoadIdle
  /\ gfn \in {"unfit", "cv"}
  /\ monthly_crime = 1..MaxMonths
  /\ monthly_other \in { 1..hi : hi \in 0..MaxMonths } \cup { 2..(MaxMonths + 1) }
  /\ gresult = NoResult
  /\ gpc = "start"

\* a call of run_granger_causality
RunGrangerCausality ==
  /\ gpc = "start"
  /\ gfn = "unfit"
  /\ \E periods \in { merge_inner(monthly_crime, monthly_other) } :
       \E adf_crime \in AdfOutcomes, adf_unfit \in AdfOutcomes :
         IF GcReached("unfit", periods, adf_crime, adf_unfit)
         THEN \E gc \in GcOutcomes(max_lag_of("unfit",
                       Len(diff_dropna(periods, adf_crime.p, adf_unfit.p)))) :
                gresult' = run_granger_causality(periods, adf_crime, adf_unfit, gc)
         ELSE gresult' = run_granger_causality(periods, adf_crime, adf_unfit, GcNotCalled)
  /\ gpc' = "returned"
  /\ UNCHANGED <<gfn, monthly_crime, monthly_other, tierVars, joinVars, classVars, cacheVars, loadVars>>

\* a call of run_granger_causality_cv
RunGrangerCausalityCv ==
  /\ gpc = "start"
  /\ gfn = "cv"
  /\ \E periods \in { merge_inner(monthly_crime, monthly_other) } :
       \E adf_crime \in AdfOutcomes, adf_cv \in AdfOutcomes :
         IF GcReached("cv", periods, adf_crime, adf_cv)
         THEN \E outcomes \in { GcOutcomes(max_lag_of("cv",
                                    Len(diff_dropna(periods, adf_crime.p, adf_cv.p)))) } :
              \E gc1 \in outcomes, gc2 \in outcomes :
                gresult' = run_granger_causality_cv(periods, adf_crime, adf_cv, gc1, gc2)
         ELSE gresult' = run_granger_causality_cv(periods, adf_crime, adf_cv,
                                                  GcNotCalled, GcNotCalled)
  /\ gpc' = "returned"
  /\ UNCHANGED <<gfn, monthly_crime, monthly_other, tierVars, joinVars, classVars, cacheVars, loadVars>>

NextGranger == RunGrangerCausality \/ RunGrangerCausalityCv

SpecGranger == InitGranger /\ [][NextGranger]_vars

\* ---- the claims about the Granger functions ----
Overlap == Cardinality(monthly_crime \cap monthly_other)

\* C9: with fewer common periods than the minimum overlap (10 for
\* run_granger_causality, 24 for run_granger_causality_cv) the function returns the
\* no-result outcome with its message, raises nothing, and calls neither adfuller nor
\* grangercausalitytests.
Thm_C9_InsufficientOverlap ==
  (gpc = "returned" /\ Overlap < (IF gfn = "unfit" THEN 10 ELSE 24)) =>
    /\ gresult.kind = "insufficient"
    /\ gresult.rows = <<>>
    /\ gresult.interpretation \in {"Insufficient overlapping time periods for Granger test.",
                                   "Insufficient overlapping time periods."}
    /\ gresult.adf_calls = 0
    /\ gresult.gc_calls = 0

\* C9 witness: run_granger_causality_cv returned 'insufficient' on 23 common months,
\* an overlap on which run_granger_causality would have run its tests.
Wit_C9_CvInsufficientAt23 ==
  /\ gpc = "returned"
  /\ gfn = "cv"
  /\ Overlap = 23
  /\ gresult.kind = "insufficient"
  /\ gresult.adf_calls = 0

(***************************************************************************)
(* Further claims about the joins                                          *)
(***************************************************************************)
\* the code-violation records within 100 m of the crime row r
NearbyViolations(r) == { j \in 1..Len(cv) : Within(Pt(r.LAT, r.LON), Pt(cv[j].lat, cv[j].lon)) }

\* C11: once the violation features are attached, each crime event has
\* violation_count = the number of violation records within 100 m,
\* violation_severity_score = the sum of the tiers of exactly those records, and
\* has_critical_violation true exactly when one of them has tier 3.
Thm_C11_ViolationFeatures ==
  jpc = "done" =>
    \A i \in 1..Len(crime_2024.rows) :
      LET r == crime_2024.rows[i]
          near == NearbyViolations(r)
      IN /\ r.violation_count = Cardinality(near)
         /\ r.violation_severity_score = SumOver([j \in 1..Len(cv) |-> cv[j].tier], near)
         /\ r.has_critical_violation = (\E j \in near : cv[j].tier = 3)

\* C11 witness: one event with two records nearby (tiers 3 and 1, score 4, critical)
\* next to an event with none.
Wit_C11_TwoNearbyOneFar ==
  /\ jpc = "done"
  /\ Len(cv) >= 2
  /\ \E i, k \in 1..Len(crime_2024.rows) :
       /\ crime_2024.rows[i].violation_count = 2
       /\ crime_2024.rows[i].violation_severity_score = 4
       /\ crime_2024.rows[i].has_critical_violation
       /\ crime_2024.rows[k].violation_count = 0
       /\ ~crime_2024.rows[k].has_critical_violation

(***************************************************************************)
(* Further claims about the classifier                                     *)
(***************************************************************************)
\* the ZIP codes of the merged table in the order in which norm saw them
MergedZips ==
  LET m == merged_nbr(crime_2024.rows, build_decay_index(unfit_clean, vacant), unfit)
  IN [k \in 1..Len(m) |-> m[k].zip_code]

\* C12: every output row has risk_score = 40 norm(crime_count) + 35 norm(decay_score)
\* + 25 norm(pct_unresolved) (that is, 100 times the weighted sum with weights 0.40,
\* 0.35, 0.25) and 0 <= risk_score <= 100, also when columns are constant.
Thm_C12_RiskScore ==
  Classified =>
    \A i \in 1..Len(nbr) :
      \E k \in 1..Len(MergedZips) :
        /\ MergedZips[k] = nbr[i].zip_code
        /\ LET a == norm_out.crime_count[k]
               b == norm_out.decay_score[k]
               c == norm_out.pct_unresolved[k]
               r == nbr[i].risk_score
           IN /\ r[2] > 0
              /\ r[1] * 100 * a[2] * b[2] * c[2]
                   = r[2] * (40 * 100 * a[1] * b[2] * c[2]
                             + 35 * 100 * b[1] * a[2] * c[2]
                             + 25 * 100 * c[1] * a[2] * b[2])
              /\ r[1] >= 0
              /\ r[1] <= 100 * r[2]

\* C12 witness: decay_score is the same in two or more ZIPs (its norm is all zero),
\* and the ZIP with the most crime and the highest unresolved rate scores 65.
Wit_C12_ConstantDecayScore65 ==
  /\ Classified
  /\ Len(nbr) >= 2
  /\ \A i \in 1..Len(nbr) : nbr[i].decay_score = nbr[1].decay_score
  /\ nbr[1].risk_score = << 65, 1 >>
  /\ nbr[Len(nbr)].risk_score = << 0, 1 >>

\* the position of the ZIP z in the table before the sort
PreSortIndex(z) == CHOOSE k \in 1..Len(MergedZips) : MergedZips[k] = z

\* C13, as claimed: the output rows descend by risk_score, and rows whose risk_score
\* ties keep their relative pre-sort order (a stable sort, hence one row order per
\* input).
Claim_C13_SortedStable ==
  Classified =>
    \A a, b \in 1..Len(nbr) :
      a < b =>
        /\ ~RLess(nbr[a].risk_score, nbr[b].risk_score)
        /\ REq(nbr[a].risk_score, nbr[b].risk_score) =>
              PreSortIndex(nbr[a].zip_code) < PreSortIndex(nbr[b].zip_code)

\* the ZIP codes of the decay-feature set
DecayZips ==
  LET decay == build_decay_index(unfit_clean, vacant)
  IN { decay[j].zip_code : j \in 1..Len(decay) }

\* C14: every zip_code of the decay-feature set has exactly one output row and the
\* output has no other rows; a ZIP without crime events has crime_count = 0, a ZIP
\* without unfit records has pct_unresolved = 0.
Thm_C14_LeftJoinKeepsEveryZip ==
  Classified =>
    /\ \A z \in DecayZips : Cardinality({ i \in 1..Len(nbr) : nbr[i].zip_code = z }) = 1
    /\ \A i \in 1..Len(nbr) : nbr[i].zip_code \in DecayZips
    /\ \A i \in 1..Len(nbr) :
         /\ (\A j \in 1..Len(crime_2024.rows) : crime_2024.rows[j].zip_code # nbr[i].zip_code)
              => nbr[i].crime_count = 0
         /\ (\A j \in 1..Len(unfit) : strip(unfit[j].zip) # nbr[i].zip_code)
              => nbr[i].pct_unresolved[1] = 0

\* C14 witness: a ZIP that has only vacant properties, no crime event and no unfit
\* record, is in the output with zeros, next to a ZIP that has crime events.
Wit_C14_ZipWithoutCrimeOrUnfit ==
  /\ Classified
  /\ \E i, k \in 1..Len(nbr) :
       /\ nbr[i].Unfit_Property = 0
       /\ nbr[i].Vacant_Property >= 1
       /\ nbr[i].total_unfit = NaN
       /\ nbr[i].crime_count = 0
       /\ nbr[i].pct_unresolved = << 0, 1 >>
       /\ nbr[k].crime_count >= 1

(***************************************************************************)
(* Further claims about the Granger functions                              *)
(***************************************************************************)
DirectionNames == << "Violations -> Crime", "Crime -> Violations" >>

\* the lags reported in the result rows for the d-th grangercausalitytests call
ReportedLags(d) ==
  IF gfn = "unfit"
  THEN { gresult.rows[i].lag_months : i \in 1..Len(gresult.rows) }
  ELSE { gresult.rows[i].lag_months :
           i \in { k \in 1..Len(gresult.rows) : gresult.rows[k].direction = DirectionNames[d] } }

\* C15, as claimed: when the Granger test fails numerically at one lag, only that
\* lag's row is missing and the other lags of the same direction are reported.
Claim_C15_OnlyFailedLagOmitted ==
  gpc = "returned" =>
    \A d \in 1..Len(gresult.gc_failed) :
      \A f \in gresult.gc_failed[d] :
        f >= 1 => /\ gresult.kind = "ok"
                  /\ ReportedLags(d) = (1..gresult.max_lag) \ {f}

\* C16, as claimed: the call never ends in an exception that reaches the caller.
Claim_C16_NeverRaises ==
  gpc = "returned" => gresult.kind # "raised"

\* the lags flagged significant in the result rows of direction d
SignificantRows(d) ==
  { gresult.rows[i].lag_months :
      i \in { k \in 1..Len(gresult.rows) :
                gresult.rows[k].direction = DirectionNames[d] /\ gresult.rows[k].significant } }

\* C17: when run_granger_causality_cv returns results, sig1 and sig2 are exactly
\* the lags flagged significant in the rows of each direction, and the
\* interpretation is 'bidirectional' iff both are non-empty, 'Violations -> Crime'
\* iff only the first is, 'Crime -> Violations' iff only the second is, and 'no
\* significant relationship' iff neither is.
Thm_C17_InterpretationFromSignificance ==
  (gpc = "returned" /\ gfn = "cv" /\ gresult.kind = "ok") =>
    /\ gresult.sig1 = SignificantRows(1)
    /\ gresult.sig2 = SignificantRows(2)
    /\ (gresult.interpretation = "bidirectional")
          <=> (SignificantRows(1) # {} /\ SignificantRows(2) # {})
    /\ (gresult.interpretation = "Violations -> Crime")
          <=> (SignificantRows(1) # {} /\ SignificantRows(2) = {})
    /\ (gresult.interpretation = "Crime -> Violations")
          <=> (SignificantRows(1) = {} /\ SignificantRows(2) # {})
    /\ (gresult.interpretation = "none")
          <=> (SignificantRows(1) = {} /\ SignificantRows(2) = {})

\* C17 witness: only the second direction has a significant lag, and it is not
\* lag 1.
Wit_C17_OnlyCrimeToViolations ==
  /\ gpc = "returned"
  /\ gfn = "cv"
  /\ gresult.kind = "ok"
  /\ gresult.sig1 = {}
  /\ Len(gresult.rows) = 2 * gresult.max_lag
  /\ gresult.sig2 # {}
  /\ 1 \notin gresult.sig2
  /\ gresult.interpretation = "Crime -> Violations"

(***************************************************************************)
(* The dashboard script and its cached analyses                            *)
(***************************************************************************)
\* A snapshot of the input files is a number; the result of an analysis is recorded
\* by the function that computed it and the snapshots of the files it was computed
\* from.
MaxSnapshots == 2
MaxReruns == 3

\* The browser sessions of the one server process: each runs the script in a thread
\* of its own, all share st.cache_data.
Sessions == { "A", "B" }

\* load_data: the files in the order in which they are read (crime_unfit_analysis.py
\* lines 22, 27, 33 and, in load_code_violations, 1084)
InputFiles ==
  << "crime_clean.csv", "Unfit_Properties.csv", "Vacant_Properties.csv", "code_violations.csv" >>

\* no file has been read
NotRead == [k \in 1..Len(InputFiles) |-> 0]

\* dashboard.py: the cached wrappers in the order in which the script calls them
CachedFunctions ==
  << "get_classification", "get_abandonment", "get_granger", "get_granger_cv", "get_rf" >>

\* The files (as indices of InputFiles) that the arguments of a wrapper are made
\* from: crime_2024 from all four (joins with unfit_clean and vacant, ZIP of the
\* decay index, violation features of cv), decay from the unfit and vacant files,
\* crime, unfit and cv from their own file.  run_hotspot_model takes no argument and
\* reads crime_clean.csv itself.
ArgFiles(fn) ==
  CASE fn = "get_granger" -> { 1, 2 }
    [] fn = "get_granger_cv" -> { 1, 4 }
    [] fn = "get_hotspot_results" -> { 1 }
    [] OTHER -> { 1, 2, 3, 4 }

\* the input of a call of fn with frames made from the snapshots in frames
call_input(fn, frames) == [k \in ArgFiles(fn) |-> frames[k]]

\* st.cache_data: the key is the function and the hash of the arguments whose
\* parameter name does not start with an underscore.  Every parameter of the
\* wrappers starts with an underscore (get_hotspot_results has none), so the
\* input does not enter the key.
cache_key(fn, input) == << fn >>

\* the analysis computed by the wrapped function from the input
analysis(fn, input) == [fn |-> fn, of |-> input]

\* one call of a cached wrapper: the cache, the computation counts and the call
\* record after it
cached_call(fn, input) ==
  LET key == cache_key(fn, input) IN
  IF key \in DOMAIN cache_data
  THEN /\ lastcall' = [fn |-> fn, input |-> input, result |-> cache_data[key], hit |-> TRUE]
       /\ UNCHANGED <<cache_data, computed>>
  ELSE /\ cache_data' = (key :> analysis(fn, input)) @@ cache_data
       /\ computed' = (<< fn, input >> :>
                         (IF << fn, input >> \in DOMAIN computed
                          THEN computed[<< fn, input >>] + 1 ELSE 1)) @@ computed
       /\ lastcall' = [fn |-> fn, input |-> input, result |-> analysis(fn, input),
                       hit |-> FALSE]

OthersIdle == TierIdle /\ JoinIdle /\ ClassifyIdle /\ GrangerIdle /\ LoadIdle

InitCache ==
  /\ OthersIdle
  /\ files = 1
  /\ loaded = [s \in Sessions |-> NotRead]
  /\ cache_data = <<>>
  /\ computed = <<>>
  /\ lastcall = [fn |-> "none"]
  /\ spc = [s \in Sessions |-> 0]
  /\ reruns = 0

\* the input files are replaced on disk while the process runs
FilesChange ==
  /\ files < MaxSnapshots
  /\ files' = files + 1
  /\ UNCHANGED <<loaded, cache_data, computed, lastcall, spc, reruns,
                 tierVars, joinVars, classVars, grangerVars, loadVars>>

\* A script run of the session s starts: dashboard.py line 61 calls load_data().  A
\* run starts after the previous one of the session has ended, and also while it is
\* part-way: a widget interaction (st_folium, line 499) makes the script start again
\* from the top and the earlier run is abandoned, and a run that ended on an
\* exception is followed by one from the top.  The results cached so far stay in
\* cache_data; the runs of the other sessions go on.
Rerun(s) ==
  /\ spc[s] \in 0..(Len(InputFiles) + Len(CachedFunctions))
  /\ reruns < MaxReruns
  /\ loaded' = [loaded EXCEPT ![s] = NotRead]
  /\ spc' = [spc EXCEPT ![s] = 1]
  /\ reruns' = reruns + 1
  /\ UNCHANGED <<files, cache_data, computed, lastcall,
                 tierVars, joinVars, classVars, grangerVars, loadVars>>

\* load_data reads its next file (pd.read_csv): the snapshot that is on disk now
ReadFile(s) ==
  /\ spc[s] \in 1..Len(InputFiles)
  /\ loaded' = [loaded EXCEPT ![s][spc[s]] = files]
  /\ spc' = [spc EXCEPT ![s] = spc[s] + 1]
  /\ UNCHANGED <<files, cache_data, computed, lastcall, reruns,
                 tierVars, joinVars, classVars, grangerVars, loadVars>>

\* the script reaches its next cached call (dashboard.py lines 225, 226, 317, 461,
\* 544) and passes it the frames load_data returned in this run
ScriptCall(s) ==
  LET n == spc[s] - Len(InputFiles) IN
  /\ n \in 1..Len(CachedFunctions)
  /\ cached_call(CachedFunctions[n], call_input(CachedFunctions[n], loaded[s]))
  /\ spc' = [spc EXCEPT ![s] = IF n = Len(CachedFunctions) THEN 0 ELSE spc[s] + 1]
  /\ UNCHANGED <<files, loaded, reruns, tierVars, joinVars, classVars, grangerVars, loadVars>>

\* tabs/tab_prediction.render calls get_hotspot_results(), whose wrapped function
\* reads the input file itself
RenderPrediction(s) ==
  /\ spc[s] - Len(InputFiles) \in 1..Len(CachedFunctions)
  /\ cached_call("get_hotspot_results",
                 call_input("get_hotspot_results", [k \in 1..Len(InputFiles) |-> files]))
  /\ UNCHANGED <<files, loaded, spc, reruns, tierVars, joinVars, classVars, grangerVars, loadVars>>

NextCache ==
  \/ FilesChange
  \/ \E s \in Sessions : Rerun(s)
  \/ \E s \in Sessions : ReadFile(s)
  \/ \E s \in Sessions : ScriptCall(s)
  \/ \E s \in Sessions : RenderPrediction(s)

SpecCache == InitCache /\ [][NextCache]_vars

\* C18, as claimed: each cached analysis is computed at most once per input
\* snapshot, and a call never returns a result that was computed from a snapshot
\* other than the one it was called with.
Claim_C18_KeyedByInputSnapshot ==
  /\ \A k \in DOMAIN computed : computed[k] <= 1
  /\ lastcall.fn # "none" => lastcall.result.of = lastcall.input

(***************************************************************************)
(* Claims about the ZIP assignment                                         *)
(***************************************************************************)
\* the crime_count column the classifier derives from the crime rows, per ZIP row
CrimeCountPerZip(rows) ==
  LET m == merged_nbr(rows, build_decay_index(unfit_clean, vacant), unfit_clean)
  IN [k \in 1..Len(m) |-> << m[k].zip_code, m[k].crime_count >>]

\* C19: assign_crime_zip applied to its own output with the same decay frame gives
\* every crime event the zip_code it already has, and the classifier's per-ZIP
\* crime_count is the same for both frames.  The second application computes the
\* centroids again, reads LAT and LON from the frame the first one returned, and
\* repeats the query; centroids at the same place, and centroids too close for the
\* float64 metric to tell, are among the inputs.
Thm_C19_ZipAssignmentIdempotent ==
  [][ (jpc = "zipped" /\ jpc' = "rezipped") =>
        /\ Len(crime_2024'.rows) = Len(crime_2024.rows)
        /\ \A i \in 1..Len(crime_2024.rows) :
             crime_2024'.rows[i].zip_code = crime_2024.rows[i].zip_code
        /\ CrimeCountPerZip(crime_2024'.rows) = CrimeCountPerZip(crime_2024.rows) ]_vars

\* C19 witness: the second application has run on a frame with an event that has
\* two candidate centroids, whose metric the rounding of float64 decides; the later
\* one in zip_centroids has the smaller float64 metric, and the event has its ZIP.
Wit_C19_ReassignedCloseCentroids ==
  /\ jpc = "rezipped"
  /\ LET cents == zip_centroids(build_decay_index(unfit_clean, vacant))
     IN \E i \in 1..Len(crime_2024.rows) :
          \E k, k2 \in Candidates(c_coords(crime_2024)[i], cents) :
            /\ ZipBefore(k, k2)
            /\ tie_rounding[c_coords(crime_2024)[i]] = k2
            /\ crime_2024.rows[i].zip_code = k2.zip_code

\* C20, as claimed: after assign_crime_zip every crime event has the zip_code of a
\* nearest centroid among the five-digit ZIPs of the decay frame, so the call
\* completes and every zip_code is a five-digit code of the decay frame.
Claim_C20_NearestFiveDigitCentroid ==
  LET decay == build_decay_index(unfit_clean, vacant)
      cents == zip_centroids(decay)
  IN /\ jerr # "BallTree(centroid_coords)"
     /\ jpc \in {"zipped", "rezipped", "done"} =>
          \A i \in 1..Len(crime_2024.rows) :
            LET z == crime_2024.rows[i].zip_code
            IN /\ IsFiveDigit(z)
               /\ \E j \in 1..Len(decay) : decay[j].zip_code = z
               /\ \E k \in cents :
                    /\ k.zip_code = z
                    /\ IsNearest(Pt(crime_2024.rows[i].LAT, crime_2024.rows[i].LON), k, cents)

(***************************************************************************)
(* The radius joins with the query points as reference points              *)
(***************************************************************************)
\* The points from which a self-join is drawn: the crime locations and one point
\* about 14 m from the first.
SelfPts == CrimeLocs \o << Pt(430481, -761471) >>

MaxSelf == 3

\* the point lists with 1..MaxSelf points; a point may occur more than once
SelfLists == UNION { [1..n -> { SelfPts[k] : k \in 1..Len(SelfPts) }] : n \in 1..MaxSelf }

\* the same points as crime events, unfit properties, vacant properties and code
\* violations
InitSelfJoin ==
  /\ TierIdle
  /\ ClassifyIdle
  /\ GrangerIdle
  /\ CacheIdle
  /\ LoadIdle
  /\ \E pts \in SelfLists :
       /\ crime = CrimeFrame(pts)
       /\ unfit_clean = [j \in 1..Len(pts) |->
                           [Latitude |-> pts[j].lat, Longitude |-> pts[j].lon,
                            zip |-> <<"1","3","2","0","5">>, status_type_name |-> "Open"]]
       /\ vacant = [j \in 1..Len(pts) |->
                      [lat |-> pts[j].lat, lon |-> pts[j].lon,
                       zip_code |-> <<"1","3","2","0","5">>, is_active |-> TRUE]]
       /\ cv = [j \in 1..Len(pts) |-> [lat |-> pts[j].lat, lon |-> pts[j].lon, tier |-> 1]]
  /\ crime_2024 = NoFrame
  /\ variant = "none"
  /\ jpc = "start"
  /\ jerr = "none"
  /\ tie_rounding = << >>

\* run_spatial_joins(crime, unfit_clean, vacant), then add_violation_features(crime, cv)
SelfJoin ==
  /\ jpc = "start"
  /\ crime' = run_spatial_joins(crime, unfit_clean, vacant)
  /\ crime_2024' = add_violation_features(crime', cv)
  /\ variant' = "module"
  /\ jpc' = "selfjoined"
  /\ UNCHANGED <<unfit_clean, vacant, cv, tie_rounding, jerr, tierVars, classVars, grangerVars, cacheVars, loadVars>>

NextSelfJoin == SelfJoin

SpecSelfJoin == InitSelfJoin /\ [][NextSelfJoin]_vars

\* C21: when the query points are the reference points, every query point has a
\* within-radius count of at least 1, for the 100 m radius of the joins and for
\* every radius >= 0: the point itself is at distance 0.
Thm_C21_SelfMatch ==
  jpc = "selfjoined" =>
    \A i \in 1..Len(crime_2024.rows) :
      LET r == crime_2024.rows[i]
          q == Pt(r.LAT, r.LON)
      IN /\ r.violation_count >= 1
         /\ r.near_unfit
         /\ r.near_vacant
         /\ query_radius_count(v_coords(cv), q) >= 1
         /\ \E j \in 1..Len(cv) : Pt(cv[j].lat, cv[j].lon) = q
         /\ LET self == HavScaled(q, q)
            IN \A r2 \in { << >>, One, R100, MulFix(Fix(100), R100) } : BigLeq(self, r2)

\* C21 witness: a self-join of three points of which one has no other point within
\* 100 m (count exactly 1) and one has a neighbour (count 2).
Wit_C21_IsolatedPointCountsItself ==
  /\ jpc = "selfjoined"
  /\ Len(crime_2024.rows) = 3
  /\ \E i, k \in 1..3 :
       /\ crime_2024.rows[i].violation_count = 1
       /\ crime_2024.rows[k].violation_count = 2

(***************************************************************************)
(* Further claims about the tier assignment                                *)
(***************************************************************************)
\* C22: both tier functions return a value in {0,1,2,3} for every text; a missing
\* text gets 1, and a text without exclusion, Tier-1, Tier-2 or Tier-3 keyword gets 1.
Thm_C22_TotalWithDefaultTier1 ==
  /\ tier_mod \in {UNSET, 0, 1, 2, 3}
  /\ tier_mono \in {UNSET, 0, 1, 2, 3}
  /\ violation_text.isna => (tier_mod \in {UNSET, 1} /\ tier_mono \in {UNSET, 1})
  /\ (~violation_text.isna /\ ~HasExclude(violation_text) /\ ~HasTier1(violation_text)
        /\ ~HasTier2(violation_text) /\ ~HasTier3(violation_text))
       => (tier_mod \in {UNSET, 1} /\ tier_mono \in {UNSET, 1})

\* C22 witness: a text that is present and matches no keyword of any list got tier 1
\* from both functions.
Wit_C22_UnmatchedTextTier1 ==
  /\ ~violation_text.isna
  /\ Len(violation_text.chars) > 0
  /\ ~HasExclude(violation_text)
  /\ ~HasTier1(violation_text)
  /\ ~HasTier2(violation_text)
  /\ ~HasTier3(violation_text)
  /\ tier_mod = 1
  /\ tier_mono = 1

(***************************************************************************)
(* load_code_violations                                                    *)
(***************************************************************************)
KEEP_COMPLAINT_TYPES ==
  { "Property Maintenance-Int", "Property Maintenance-Ext", "Vacant House",
    "Overgrowth: Private, Occ", "Trash/Debris-Private, Occ", "Fire Safety", "Vacant Lot" }

\* TIER_LABELS; the label columns of the two copies use the same three entries
TIER_LABELS ==
  (3 :> "Structural / Critical") @@ (2 :> "Systems Failure") @@ (1 :> "Environmental Neglect")

\* df['tier'].map(TIER_LABELS): a tier without entry gives a null label
tier_label_of(t) == IF t \in DOMAIN TIER_LABELS THEN TIER_LABELS[t] ELSE "NaN"

\* df[df['complaint_type_name'].isin(KEEP_COMPLAINT_TYPES)]
complaint_filter(rows) ==
  LET Keep(r) == r.complaint_type_name \in KEEP_COMPLAINT_TYPES IN SelectSeq(rows, Keep)

\* df['tier'] = df['violation'].apply(_assign_tier), resp. _assign_violation_tier
with_tier(rows, which) ==
  [i \in 1..Len(rows) |->
     [rows[i] EXCEPT !.tier = IF which = "module" THEN _assign_tier(rows[i].violation)
                              ELSE _assign_violation_tier(rows[i].violation)]]

\* The mutant of tier_filter: the administrative rows (tier 0) are kept.
tier_filter_keep_all(rows) ==
  LET Pos(r) == r.tier >= 0 IN SelectSeq(rows, Pos)

\* df[df['tier'] > 0]
tier_filter(rows) ==
  LET Pos(r) == r.tier > 0 IN SelectSeq(rows, Pos)

\* A cell of the Latitude or Longitude column of the file: << v >> for the number v
\* (in units of 0.0001 degree), NA for a missing value.
NA == << >>

\* df.dropna(subset=['Latitude', 'Longitude'])
dropna_coords(rows) ==
  LET Has(r) == r.Latitude # NA /\ r.Longitude # NA IN SelectSeq(rows, Has)

\* ---- pd.read_csv("code_violations.csv"): the complaint_zip column ----
\* A cell of complaint_zip is the text of the file.  read_csv (C parser, default
\* options, pandas 2) takes the texts below for missing values, as they stand.
NaTexts ==
  { << >>, <<"#","N","/","A">>, <<"#","N","/","A"," ","N","/","A">>, <<"#","N","A">>,
    <<"-","1",".","#","I","N","D">>, <<"-","1",".","#","Q","N","A","N">>,
    <<"-","N","a","N">>, <<"-","n","a","n">>, <<"1",".","#","I","N","D">>,
    <<"1",".","#","Q","N","A","N">>, <<"<","N","A",">">>, <<"N","/","A">>, <<"N","A">>,
    <<"N","U","L","L">>, <<"N","a","N">>, <<"N","o","n","e">>, <<"n","/","a">>,
    <<"n","a","n">>, <<"n","u","l","l">> }

\* the texts read_csv converts to True and to False
TrueTexts == { <<"T","r","u","e">>, <<"T","R","U","E">>, <<"t","r","u","e">> }
FalseTexts == { <<"F","a","l","s","e">>, <<"F","A","L","S","E">>, <<"f","a","l","s","e">> }

\* what the parser's number conversions skip before and after a number: blank, tab,
\* newline, U+000B, form feed, carriage return
NumberBlanks == { " ", "\t", "\n", "", "\f", "\r" }

RECURSIVE skip_blanks(_)
skip_blanks(s) ==
  IF s = <<>> THEN s
  ELSE IF Head(s) \in NumberBlanks THEN skip_blanks(Tail(s))
  ELSE IF s[Len(s)] \in NumberBlanks THEN skip_blanks(SubSeq(s, 1, Len(s) - 1))
  ELSE s

\* a number text without its sign
unsigned(s) == IF s # <<>> /\ Head(s) \in {"+", "-"} THEN Tail(s) ELSE s

\* the integer conversion accepts: blanks, an optional sign, one or more digits, blanks
IsIntText(c) ==
  LET u == unsigned(skip_blanks(c))
  IN u # <<>> /\ \A i \in 1..Len(u) : u[i] \in Digits

\* the float conversion accepts: blanks, an optional sign, digits with at most one
\* decimal point and at least one digit, blanks.  Exponents and the spellings of
\* infinity are not among the cells of the model.
IsFloatText(c) ==
  LET u == unsigned(skip_blanks(c))
  IN /\ \A i \in 1..Len(u) : u[i] \in Digits \cup {"."}
     /\ \E i \in 1..Len(u) : u[i] \in Digits
     /\ Cardinality({ i \in 1..Len(u) : u[i] = "." }) <= 1

\* The type read_csv gives the column, tried in the order int64, float64, bool,
\* object: int64 needs every cell to be an integer, float64 every cell that is not
\* missing to be a number, "bool" every such cell to be a truth value (the column is
\* then of dtype bool, or object when a cell is missing); a column of a file without
\* rows is object.
infer_dtype(cells) ==
  LET present == { i \in 1..Len(cells) : cells[i] \notin NaTexts }
  IN IF Len(cells) = 0 THEN "object"
     ELSE IF \A i \in 1..Len(cells) : i \in present /\ IsIntText(cells[i]) THEN "int64"
     ELSE IF \A i \in present : IsFloatText(cells[i]) THEN "float64"
     ELSE IF \A i \in present : cells[i] \in TrueTexts \cup FalseTexts THEN "bool"
     ELSE "object"

\* digits without leading zeros
RECURSIVE lstrip_zeros(_)
lstrip_zeros(d) == IF Len(d) > 1 /\ Head(d) = "0" THEN lstrip_zeros(Tail(d)) ELSE d

\* digits without trailing zeros
RECURSIVE rstrip_zeros(_)
rstrip_zeros(d) ==
  IF d # <<>> /\ d[Len(d)] = "0" THEN rstrip_zeros(SubSeq(d, 1, Len(d) - 1)) ELSE d

\* str() of the int64 read from the text c (fewer than 19 digits)
int_str(c) ==
  LET t == skip_blanks(c)
      d == lstrip_zeros(unsigned(t))
  IN IF Head(t) = "-" /\ d # <<"0">> THEN <<"-">> \o d ELSE d

\* str() of the float64 read from the text c: the shortest decimal that reads back
\* as the same float, with at least one decimal.  For a text of fewer than 16
\* significant digits whose value is 0 or between 0.0001 and 10^16 these are the
\* digits of the text.
float_str(c) ==
  LET t    == skip_blanks(c)
      u    == unsigned(t)
      dots == { i \in 1..Len(u) : u[i] = "." }
      k    == IF dots = {} THEN Len(u) + 1 ELSE CHOOSE i \in dots : TRUE
      ip   == lstrip_zeros(IF k = 1 THEN <<"0">> ELSE SubSeq(u, 1, k - 1))
      fp   == rstrip_zeros(SubSeq(u, k + 1, Len(u)))
      body == ip \o <<".">> \o (IF fp = <<>> THEN <<"0">> ELSE fp)
  IN IF Head(t) = "-" THEN <<"-">> \o body ELSE body

\* df = pd.read_csv("code_violations.csv"), as far as complaint_zip goes: every cell
\* becomes a value of the column's type
read_csv(csv) ==
  LET dtype == infer_dtype([i \in 1..Len(csv) |-> csv[i].complaint_zip])
  IN [i \in 1..Len(csv) |->
        [csv[i] EXCEPT !.complaint_zip = [dtype |-> dtype, text |-> csv[i].complaint_zip]]]

\* .astype(str) of one value of the column: 'nan' for a missing value, the number as
\* str() prints it, 'True' or 'False', or the text of the file
astype_str(v) ==
  IF v.text \in NaTexts THEN <<"n","a","n">>
  ELSE IF v.dtype = "int64" THEN int_str(v.text)
  ELSE IF v.dtype = "float64" THEN float_str(v.text)
  ELSE IF v.dtype = "bool"
  THEN (IF v.text \in TrueTexts THEN <<"T","r","u","e">> ELSE <<"F","a","l","s","e">>)
  ELSE v.text

\* ---- pd.to_datetime(column, format='mixed', utc=True) ----
\* A cell of violation_date or open_date: NA (missing), Unreadable (a text the parser
\* rejects), or << year, month >> of the instant, in UTC, the parser reads.  How a
\* text is parsed is not modelled.
Unreadable == <<"unreadable">>

\* to_datetime raises on the first cell it cannot parse; missing cells become NaT
to_datetime_raises(cells) == \E i \in 1..Len(cells) : cells[i] = Unreadable

\* The date columns the copy parses: violation_date in both, open_date in
\* crime_unfit_analysis.py only
dates_raise(csv, which) ==
  \/ to_datetime_raises([i \in 1..Len(csv) |-> csv[i].violation_date])
  \/ /\ which = "monolith"
     /\ to_datetime_raises([i \in 1..Len(csv) |-> csv[i].open_date])

\* df['year'], df['month'], df['period'] from violation_date; NaT gives missing
\* values.  period, the first day of the month, is << year, month >>.
with_dates(rows) ==
  [i \in 1..Len(rows) |->
     [rows[i] EXCEPT
        !.year   = IF rows[i].violation_date = NA THEN NA ELSE << rows[i].violation_date[1] >>,
        !.month  = IF rows[i].violation_date = NA THEN NA ELSE << rows[i].violation_date[2] >>,
        !.period = rows[i].violation_date]]

\* the rename of the columns; zip_code as text, stripped; is_open and tier_label added
standardize(rows) ==
  [i \in 1..Len(rows) |->
     [complaint_type_name |-> rows[i].complaint_type_name,
      violation |-> rows[i].violation,
      violation_date |-> rows[i].violation_date,
      year |-> rows[i].year,
      month |-> rows[i].month,
      period |-> rows[i].period,
      lat |-> rows[i].Latitude,
      lon |-> rows[i].Longitude,
      zip_code |-> strip(astype_str(rows[i].complaint_zip)),
      status_type_name |-> rows[i].status_type_name,
      is_open |-> (rows[i].status_type_name = "Open"),
      tier |-> rows[i].tier,
      tier_label |-> tier_label_of(rows[i].tier)]]

\* load_code_violations of analysis/code_violations.py (which = "module") and of
\* crime_unfit_analysis.py (which = "monolith"), from the rows of the CSV file: the
\* exception of to_datetime leaves the function (raised), or the frame is returned
load_code_violations(csv, which) ==
  IF dates_raise(csv, which)
  THEN [raised |-> TRUE, df |-> <<>>]
  ELSE [raised |-> FALSE,
        df |-> standardize(dropna_coords(tier_filter(
                 with_tier(complaint_filter(with_dates(read_csv(csv))), which))))]

\* ---- inputs of the loading specification ----
\* a row of code_violations.csv; the derived columns do not exist yet
CsvRow(type, text, la, lo, zip, status, vdate, odate) ==
  [complaint_type_name |-> type, violation |-> text, Latitude |-> la, Longitude |-> lo,
   complaint_zip |-> zip, status_type_name |-> status,
   violation_date |-> vdate, open_date |-> odate,
   tier |-> UNSET, year |-> NA, month |-> NA, period |-> NA]

\* a date cell the parser reads as the month m of the year y
Date(y, m) == << y, m >>

\* Rows of the file: a structural violation, an administrative one (excluded), a
\* complaint type outside the allow-list, a row without violation text and without
\* violation date, a systems failure without longitude, a trash violation without
\* ZIP code, an overgrowth violation with a ZIP+4 code and an unreadable opening
\* date, and a vacant house with an unreadable violation date.
CsvRows ==
  << CsvRow("Fire Safety", Text(Fragments[4]), << 430479 >>, << -761468 >>,
            <<" ","1","3","2","0","5">>, "Open", Date(2019, 3), Date(2019, 2)),
     CsvRow("Vacant Lot", Text(Fragments[1]), << 430480 >>, << -761470 >>,
            <<"1","3","2","0","5">>, "Closed", Date(2020, 11), NA),
     CsvRow("Sewer Back-up", Text(Fragments[10]), << 430700 >>, << -761200 >>,
            <<"1","3","2","0","4">>, "Open", Date(2021, 1), Date(2020, 12)),
     CsvRow("Property Maintenance-Ext", NaText, << 430480 >>, << -761470 >>,
            <<"1","3","2","0","4">>, "Open", NA, Date(2018, 6)),
     CsvRow("Property Maintenance-Int", Text(Fragments[8]), << 430700 >>, NA,
            <<"1","3","2","1","0">>, "Closed", Date(2022, 7), Date(2022, 7)),
     CsvRow("Trash/Debris-Private, Occ", Text(Fragments[9]), << 430700 >>, << -761200 >>,
            <<"n","a","n">>, "Open", Date(2017, 12), Date(2017, 12)),
     CsvRow("Overgrowth: Private, Occ", Text(Fragments[9]), << 430479 >>, << -761468 >>,
            <<"1","3","2","0","4","-","1","1","0","2">>, "Open", Date(2023, 5), Unreadable),
     CsvRow("Vacant House", Text(Fragments[4]), << 430480 >>, << -761470 >>,
            <<"1","3","2","0","8">>, "Closed", Unreadable, Date(2016, 4)) >>

MaxCsv == 3

InitLoad ==
  /\ TierIdle
  /\ JoinIdle
  /\ ClassifyIdle
  /\ GrangerIdle
  /\ CacheIdle
  /\ cv_csv \in SubLists(CsvRows, 0, MaxCsv)
  /\ cv_df = <<>>
  /\ lpc = "start"

\* analysis/code_violations.load_code_violations()
LoadCodeViolations ==
  /\ lpc = "start"
  /\ LET out == load_code_violations(cv_csv, "module")
     IN /\ cv_df' = out.df
        /\ lpc' = IF out.raised THEN "raised" ELSE "module"
  /\ UNCHANGED <<cv_csv, tierVars, joinVars, classVars, grangerVars, cacheVars>>

\* crime_unfit_analysis.load_code_violations()
LoadCodeViolationsMonolith ==
  /\ lpc = "start"
  /\ LET out == load_code_violations(cv_csv, "monolith")
     IN /\ cv_df' = out.df
        /\ lpc' = IF out.raised THEN "raised" ELSE "monolith"
  /\ UNCHANGED <<cv_csv, tierVars, joinVars, classVars, grangerVars, cacheVars>>

NextLoad == LoadCodeViolations \/ LoadCodeViolationsMonolith

SpecLoad == InitLoad /\ [][NextLoad]_vars

\* C23: every returned record has tier 1, 2 or 3, a complaint type of the
\* allow-list, both coordinates, and the label of its tier; its tier is the value
\* the tier function computes from its violation text.
Thm_C23_LoadedRecords ==
  lpc \in {"module", "monolith"} =>
    \A i \in 1..Len(cv_df) :
      LET r == cv_df[i] IN
        /\ r.tier \in {1, 2, 3}
        /\ r.complaint_type_name \in KEEP_COMPLAINT_TYPES
        /\ r.lat # NA
        /\ r.lon # NA
        /\ r.tier_label # "NaN"
        /\ r.tier_label = TIER_LABELS[r.tier]
        /\ r.tier = (IF lpc = "module" THEN _assign_tier(r.violation)
                     ELSE _assign_violation_tier(r.violation))
        /\ \E j \in 1..Len(cv_csv) :
             /\ cv_csv[j].violation = r.violation
             /\ cv_csv[j].complaint_type_name = r.complaint_type_name
             /\ cv_csv[j].Latitude = r.lat
             /\ cv_csv[j].Longitude = r.lon

\* C23 witness: of three rows of the file, an administrative one among them, the
\* structural one and the one without text were returned, with tiers 3 and 1; the
\* ZIP column of the file was read as integers.
Wit_C23_ExcludedRowDropped ==
  /\ lpc = "monolith"
  /\ Len(cv_csv) = 3
  /\ \E j \in 1..3 : cv_csv[j].complaint_type_name = "Vacant Lot"
  /\ Len(cv_df) = 2
  /\ cv_df[1].tier = 3
  /\ cv_df[1].tier_label = "Structural / Critical"
  /\ cv_df[1].zip_code = <<"1","3","2","0","5">>
  /\ cv_df[2].tier = 1
  /\ cv_df[2].violation = NaText

(***************************************************************************)
(* Claims about differencing and the lag order                             *)
(***************************************************************************)
\* the Granger function got past the stationarity check
Tested == gpc = "returned" /\ gresult.kind \in {"ok", "error"}

\* the number of differences a column with ADF p-value p must have received
DiffOrder(p) == IF p > P05 THEN 1 ELSE 0

\* C24: in both Granger functions a series is differenced once if and only if its own
\* ADF p-value is > 0.05, whatever the p-value of the other series, and never
\* twice; the tested frame has n - 1 rows if a series was differenced and n rows
\* otherwise (n common periods), no missing value, and both columns on the same
\* periods: the last n - 1, resp. all n, common periods in ascending order.
Thm_C24_DifferencedOncePerSeries ==
  Tested =>
    \A merged \in { merge_inner(monthly_crime, monthly_other) } :
      LET n == Len(merged)
          t == gresult.tested
          k == IF gresult.adf_p[1] > P05 \/ gresult.adf_p[2] > P05 THEN 1 ELSE 0
      IN /\ Len(t) = n - k
         /\ \A i \in 1..Len(t) :
              /\ t[i].crime_count = DiffOrder(gresult.adf_p[1])
              /\ t[i].other_count = DiffOrder(gresult.adf_p[2])
              /\ t[i].period = merged[i + k]

\* C24 witness: run_granger_causality_cv with a stationary crime series (p = 0.05)
\* and a non-stationary violation series: only the violation column is differenced
\* and 25 of the 26 common months are tested.
Wit_C24_OnlyViolationsDifferenced ==
  /\ Tested
  /\ gfn = "cv"
  /\ gresult.adf_p = << 5000, 20000 >>
  /\ Overlap = 26
  /\ Len(gresult.tested) = 25
  /\ gresult.tested[1] = [period |-> 2, crime_count |-> 0, other_count |-> 1]

\* the result rows of the d-th grangercausalitytests call, in the order of the result
DirectionRows(d) ==
  IF gfn = "unfit" THEN gresult.rows
  ELSE LET OfD(r) == r.direction = DirectionNames[d] IN SelectSeq(gresult.rows, OfD)

\* the directions a function tests: one in run_granger_causality, two in
\* run_granger_causality_cv
Directions == IF gfn = "unfit" THEN {1} ELSE {1, 2}

\* C25: the maximum lag is min(4, floor(n/4)) in run_granger_causality and
\* min(6, floor(n/5)) in run_granger_causality_cv, n being the number of rows left
\* after differencing and dropna; for every direction whose test returned, the
\* result has exactly one row per lag 1..max_lag, in ascending order of the lag.
Thm_C25_MaxLagAndRows ==
  Tested =>
    LET n == Len(gresult.tested) IN
      /\ gfn = "unfit" =>
           gresult.max_lag = (IF n \div 4 < 4 THEN n \div 4 ELSE 4)
      /\ gfn = "cv" =>
           gresult.max_lag = (IF n \div 5 < 6 THEN n \div 5 ELSE 6)
      /\ \A d \in Directions :
           gresult.gc_failed[d] = {} =>
             /\ Len(DirectionRows(d)) = gresult.max_lag
             /\ \A i \in 1..gresult.max_lag : DirectionRows(d)[i].lag_months = i

\* C25 witness: run_granger_causality_cv with 35 common months, neither series
\* differenced: n = 35, n div 5 = 7, max_lag is the cap 6, and both directions
\* report the lags 1..6.
Wit_C25_CvSixLagsAtCap ==
  /\ Tested
  /\ gfn = "cv"
  /\ Len(gresult.tested) = 35
  /\ gresult.max_lag = 6
  /\ Len(gresult.rows) = 12
  /\ gresult.rows[6].lag_months = 6
  /\ gresult.rows[7].lag_months = 1
  /\ gresult.rows[7].direction = "Crime -> Violations"

\* C28: whenever grangercausalitytests is called, the lag order is at least 1, also
\* when a row was lost to differencing: run_granger_causality tests n >= 9 rows with
\* max_lag >= 2, run_granger_causality_cv tests n >= 23 rows with max_lag >= 4.
Thm_C28_LagOrderPositive ==
  (gpc = "returned" /\ gresult.gc_calls > 0) =>
    /\ gresult.max_lag >= 1
    /\ gfn = "unfit" => (Len(gresult.tested) >= 9 /\ gresult.max_lag >= 2)
    /\ gfn = "cv" => (Len(gresult.tested) >= 23 /\ gresult.max_lag >= 4)

\* C28 witness: run_granger_causality with exactly 10 common months and a
\* differenced series tests 9 rows with max_lag 2.
Wit_C28_NineRowsTwoLags ==
  /\ gpc = "returned"
  /\ gfn = "unfit"
  /\ gresult.gc_calls = 1
  /\ Overlap = 10
  /\ Len(gresult.tested) = 9
  /\ gresult.max_lag = 2

(***************************************************************************)
(* Claims about the reported p-values                                      *)
(***************************************************************************)
\* the p-value shown in the i-th result row: p_value_ftest in
\* run_granger_causality, p_value in run_granger_causality_cv
ShownP(i) ==
  IF gfn = "unfit" THEN gresult.rows[i].p_value_ftest ELSE gresult.rows[i].p_value

\* C30, as claimed: in every result row, significant is true if and only if the
\* p-value shown in the row (rounded to 4 decimals) is < 0.05.
Claim_C30_FlagAgreesWithShownP ==
  (gpc = "returned" /\ gresult.kind = "ok") =>
    \A i \in 1..Len(gresult.rows) :
      gresult.rows[i].significant <=> (ShownP(i) < 5000)

\* C30, amended: the flag is computed from the p-value before rounding, so a
\* significant row shows a p-value <= 0.05 (0.05 itself when the p-value is in
\* [0.04995, 0.05)), and every row that shows a p-value < 0.05 is significant.
Thm_C30_FlagFromUnroundedP ==
  (gpc = "returned" /\ gresult.kind = "ok") =>
    \A i \in 1..Len(gresult.rows) :
      /\ gresult.rows[i].significant => ShownP(i) <= 5000
      /\ ShownP(i) < 5000 => gresult.rows[i].significant

\* C30 witness: a row of run_granger_causality_cv that shows p = 0.05 and is
\* flagged significant (the p-value was 0.04996), next to a row that is not.
Wit_C30_SignificantAtShown005 ==
  /\ gpc = "returned"
  /\ gfn = "cv"
  /\ gresult.kind = "ok"
  /\ \E i, k \in 1..Len(gresult.rows) :
       /\ gresult.rows[i].significant
       /\ gresult.rows[i].p_value = 5000
       /\ ~gresult.rows[k].significant
       /\ gresult.rows[k].p_value = 30000

(***************************************************************************)
(* Claims about the frames the joins work on                               *)
(***************************************************************************)
\* C26, as claimed: run_spatial_joins, assign_crime_zip and add_violation_features
\* leave the crime collection passed in by the caller unchanged and attach the
\* derived fields to a copy that they return.
Claim_C26_CallerFrameUnchanged == [][crime' = crime]_vars

\* C27: with the violation features computed against records of tier 1, 2 or 3
\* (the output of load_code_violations), every crime event has violation_count <=
\* violation_severity_score <= 3 x violation_count; violation_count = 0 implies a
\* score of 0 and no critical violation; a critical violation implies a score >= 3.
Thm_C27_FeatureBounds ==
  jpc = "done" =>
    \A i \in 1..Len(crime_2024.rows) :
      LET r == crime_2024.rows[i] IN
        /\ r.violation_count <= r.violation_severity_score
        /\ r.violation_severity_score <= 3 * r.violation_count
        /\ r.violation_count = 0 =>
             (r.violation_severity_score = 0 /\ ~r.has_critical_violation)
        /\ r.has_critical_violation => r.violation_severity_score >= 3

\* C27 witness: an event with one tier-3 record nearby (score 3 = 3 x 1, critical),
\* another event with no record nearby although the violation set is not empty.
Wit_C27_ScoreAtUpperBound ==
  /\ jpc = "done"
  /\ Len(cv) >= 1
  /\ \A j \in 1..Len(cv) : cv[j].tier \in {1, 2, 3}
  /\ \E i, k \in 1..Len(crime_2024.rows) :
       /\ crime_2024.rows[i].violation_count = 1
       /\ crime_2024.rows[i].violation_severity_score = 3
       /\ crime_2024.rows[i].has_critical_violation
       /\ crime_2024.rows[k].violation_count = 0
       /\ crime_2024.rows[k].violation_severity_score = 0

(***************************************************************************)
(* Claims about the number of high-risk ZIPs                               *)
(***************************************************************************)
TypeA == { i \in 1..Len(nbr) : nbr[i].zone_type = "Type A" }
TypeAB == { i \in 1..Len(nbr) : nbr[i].zone_type \in {"Type A", "Type B"} }

\* C29: in the output of either classify_neighborhoods with n ZIPs, at most
\* floor(n/2) ZIPs are Type A or Type B, at most floor(n/2) are Type A, and when
\* all ZIPs have the same decay_score none is Type A or Type B.
Thm_C29_AtMostHalfHighDecay ==
  Classified =>
    /\ Cardinality(TypeAB) <= Len(nbr) \div 2
    /\ Cardinality(TypeA) <= Len(nbr) \div 2
    /\ (\A i, k \in 1..Len(nbr) : nbr[i].decay_score = nbr[k].decay_score) => TypeAB = {}

\* C29 witness: two ZIPs with different decay scores, of which exactly one
\* (floor(2/2)) is Type A or Type B: the one with the higher score, which is Type A.
Wit_C29_OneOfTwo ==
  /\ Classified
  /\ Len(nbr) = 2
  /\ Cardinality(TypeAB) = 1
  /\ Cardinality(TypeA) = 1
  /\ \E i, k \in 1..Len(nbr) :
       /\ nbr[i].decay_score > nbr[k].decay_score
       /\ i \in TypeA

====
